---- MODULE Spec2Model ----
(***************************************************************************)
(* Model of the namra agent execution engine: ExecutionContext,            *)
(* ReActStrategy::execute and AgentExecutor::execute.                      *)
(*                                                                         *)
(* Text (String / &str) is a sequence of tokens.  A token is an atomic     *)
(* run of characters; the markers "TOOL:" and "ANSWER:" and the delimiters *)
(* "(", ")", "{", "}" are tokens of their own and no other token contains  *)
(* them, so str::find / str::contains of a marker is the search for the    *)
(* first equal token and a byte offset is a token index.  Whitespace is    *)
(* the token " ".  Durations and instants are whole milliseconds.          *)
(***************************************************************************)
EXTENDS Integers, Sequences, FiniteSets, TLC

\* ------------------------------------------------------------------ bounds
\* largest execution.max_iterations explored
MaxIter == 2
\* an awaited call returns at once or after SlowCall milliseconds, and at
\* most MaxSlowCalls calls of a run are slow
SlowCall == 1500
MaxSlowCalls == 2
\* longest sequence of add_tokens calls explored on one context
MaxAdds == 3

\* -------------------------------------------------------- text primitives
Min(S) == CHOOSE x \in S : \A y \in S : x <= y
Max(S) == CHOOSE x \in S : \A y \in S : x >= y

\* str::find(token): index of the first occurrence, 0 for None
Find(s, t) ==
  LET hits == {i \in 1..Len(s) : s[i] = t}
  IN  IF hits = {} THEN 0 ELSE Min(hits)

\* str::rfind(token): index of the last occurrence, 0 for None
RFind(s, t) ==
  LET hits == {i \in 1..Len(s) : s[i] = t}
  IN  IF hits = {} THEN 0 ELSE Max(hits)

\* str::contains
Contains(s, t) == \E i \in 1..Len(s) : s[i] = t

\* str::trim: drop leading and trailing whitespace
Trim(s) ==
  LET keep == {i \in 1..Len(s) : s[i] # " "}
  IN  IF keep = {} THEN <<>> ELSE SubSeq(s, Min(keep), Max(keep))

\* str::replace(" ", "")
RemoveSpaces(s) == SelectSeq(s, LAMBDA t : t # " ")

\* s[from..] in token indices (from is 1-based here)
Suffix(s, from) == SubSeq(s, from, Len(s))

Digits == <<"0", "1", "2", "3", "4", "5", "6", "7", "8", "9">>
IsDigit(t) == \E i \in 1..10 : Digits[i] = t
DigitVal(t) == (CHOOSE i \in 1..10 : Digits[i] = t) - 1

RECURSIVE DigitsValue(_)
DigitsValue(s) ==
  IF s = <<>> THEN 0
  ELSE 10 * DigitsValue(SubSeq(s, 1, Len(s) - 1)) + DigitVal(s[Len(s)])

AllDigits(s) == \A i \in 1..Len(s) : IsDigit(s[i])

\* ------------------------------------------------ 32-bit unsigned counters
\* A u32 is kept as two 16-bit limbs so that its whole range is available.
Limb == 65536
U32(hi, lo) == [hi |-> hi, lo |-> lo]
U32Zero == U32(0, 0)
U32FromNat(n) == U32(n \div Limb, n % Limb)
U32ToNat(x) == x.hi * Limb + x.lo

\* a + b on u32: the wrapped sum and whether the true sum left the range
U32Add(a, b) ==
  LET lo == a.lo + b.lo
      hi == a.hi + b.hi + (lo \div Limb)
  IN  [value |-> U32(hi % Limb, lo % Limb), overflow |-> hi >= Limb]


\* ------------------------------------------------------- option / results
None == [kind |-> "None"]
Some(v) == [kind |-> "Some", value |-> v]

\* ------------------------------------------------- ReActStrategy parsers
\* extract_tool_call: Some((tool_name, argument)), None, or the slice
\* tool_part[paren_pos + 1..end_paren] faulting when ')' precedes '('.
extract_tool_call(response) ==
  LET tool_start == Find(response, "TOOL:")
      tool_part == Trim(Suffix(response, tool_start + 1))
      paren_pos == Find(tool_part, "(")
      end_paren == Find(tool_part, ")")
  IN  IF tool_start = 0 THEN None
      ELSE IF paren_pos = 0 THEN None
      ELSE IF end_paren = 0 THEN None
      ELSE IF paren_pos + 1 > end_paren THEN [kind |-> "Panic"]
      ELSE Some([tool_name |-> Trim(SubSeq(tool_part, 1, paren_pos - 1)),
                 argument |-> Trim(SubSeq(tool_part, paren_pos + 1, end_paren - 1))])

\* faulty variant: every output without an extracted call is an answer
is_final_answer_lenient(response) == TRUE

is_final_answer(response) ==
  Contains(response, "ANSWER:") \/ ~Contains(response, "TOOL:")

\* faulty variant: the marker is not looked for
extract_answer_whole(response) == Trim(response)

extract_answer(response) ==
  LET answer_pos == Find(response, "ANSWER:")
  IN  IF answer_pos # 0 THEN Trim(Suffix(response, answer_pos + 1))
      ELSE Trim(response)

\* ------------------------------------------------------------ JSON values
\* A serde_json::Value object: a sequence of (key, string value) fields.
JsonObject(fields) == [type |-> "object", fields |-> fields]
JsonField(k, v) == [key |-> k, value |-> v]

\* Quoted JSON string literals that occur in the modelled texts, with the
\* text they denote.
QuotedLiterals ==
  {"\"expression\"", "\"url\"", "\"u\"", "\"2+2\""}
Unquote(t) ==
  CASE t = "\"expression\"" -> <<"expression">>
    [] t = "\"url\"" -> <<"url">>
    [] t = "\"u\"" -> <<"u">>
    [] t = "\"2+2\"" -> <<"2", "+", "2">>

\* serde_json::from_str on the fragment {} and {"k": "v"} (whitespace
\* between tokens is insignificant); every other text of the modelled
\* alphabet is not JSON.
ParseJson(text) ==
  LET t == RemoveSpaces(text)
  IN  IF t = <<"{", "}">> THEN Some(JsonObject(<<>>))
      ELSE IF /\ Len(t) = 5
              /\ t[1] = "{" /\ t[3] = ":" /\ t[5] = "}"
              /\ t[2] \in QuotedLiterals /\ t[4] \in QuotedLiterals
           THEN Some(JsonObject(<<JsonField(Unquote(t[2])[1], Unquote(t[4]))>>))
      ELSE None

\* input[key].as_str()
JsonGetStr(v, key) ==
  LET hits == {i \in 1..Len(v.fields) : v.fields[i].key = key}
  IN  IF hits = {} THEN None ELSE Some(v.fields[Max(hits)].value)

\* faulty variant: text that is not JSON is wrapped as an expression
BuildToolInput_always_expression(argument) ==
  IF argument # <<>> /\ argument[1] = "{"
  THEN LET parsed == ParseJson(argument)
       IN  IF parsed.kind = "Some" THEN parsed.value
           ELSE JsonObject(<<JsonField("expression", argument)>>)
  ELSE JsonObject(<<JsonField("expression", argument)>>)

\* The tool input the loop builds from the argument text
BuildToolInput(argument) ==
  IF argument # <<>> /\ argument[1] = "{"
  THEN LET parsed == ParseJson(argument)
       IN  IF parsed.kind = "Some" THEN parsed.value
           ELSE JsonObject(<<JsonField("input", argument)>>)
  ELSE JsonObject(<<JsonField("expression", argument)>>)

\* ------------------------------------------------------------------ tools
ToolOk(content, success) == [kind |-> "Ok", content |-> content, success |-> success]
ToolErr(msg) == [kind |-> "Err", content |-> msg, success |-> FALSE]

\* str::parse::<f64> on optionally signed decimal integers
ParseF64(s) ==
  LET signed == s # <<>> /\ s[1] \in {"-", "+"}
      body == IF signed THEN Tail(s) ELSE s
  IN  IF body # <<>> /\ AllDigits(body)
      THEN [ok |-> TRUE,
            value |-> IF s[1] = "-" THEN 0 - DigitsValue(body) ELSE DigitsValue(body)]
      ELSE [ok |-> FALSE, value |-> 0]

\* Display of the f64 result: an integral value prints without a fraction
\* part; an inexact quotient is kept symbolic.
Quotient(l, r) ==
  IF l % r = 0 THEN <<ToString(l \div r)>>
  ELSE <<"f64(", ToString(l), "/", ToString(r), ")">>

Ops == <<"+", "-", "*", "/">>

RECURSIVE try_simple_operation_from(_, _)
try_simple_operation_from(expr, k) ==
  IF k > Len(Ops)
  THEN LET whole == ParseF64(expr)
       IN  IF whole.ok THEN Some(<<ToString(whole.value)>>) ELSE None
  ELSE LET op == Ops[k]
           pos == RFind(expr, op)
           left == ParseF64(SubSeq(expr, 1, pos - 1))
           right == ParseF64(Suffix(expr, pos + 1))
       IN  IF pos = 0 THEN try_simple_operation_from(expr, k + 1)
           ELSE IF op = "-" /\ pos = 1 THEN try_simple_operation_from(expr, k + 1)
           ELSE IF left.ok /\ right.ok
                THEN CASE op = "+" -> Some(<<ToString(left.value + right.value)>>)
                       [] op = "-" -> Some(<<ToString(left.value - right.value)>>)
                       [] op = "*" -> Some(<<ToString(left.value * right.value)>>)
                       [] op = "/" -> IF right.value = 0 THEN None
                                      ELSE Some(Quotient(left.value, right.value))
                ELSE try_simple_operation_from(expr, k + 1)

try_simple_operation(expr) == try_simple_operation_from(expr, 1)

\* CalculatorTool::evaluate, returning the printed result
evaluate(expression) ==
  LET expr == RemoveSpaces(expression)
      r == try_simple_operation(expr)
  IN  IF r.kind = "Some" THEN [kind |-> "Ok", value |-> r.value]
      ELSE [kind |-> "Err",
            value |-> <<"Invalid input: ", "Unable to evaluate expression: ">> \o expr
                      \o <<". Supported: simple arithmetic with +, -, *, /">>]

CalculatorExecute(input) ==
  LET expression == JsonGetStr(input, "expression")
      result == evaluate(expression.value)
  IN  IF expression.kind = "None"
      THEN ToolErr(<<"Invalid input: ", "Missing 'expression' field">>)
      ELSE IF result.kind = "Err" THEN ToolErr(result.value)
      ELSE ToolOk(expression.value \o <<" = ">> \o result.value, TRUE)

\* Any other implementor of the Tool trait: its execute returns an output
\* with either success flag, or a ToolError.
CustomOutcomes ==
  { ToolOk(<<"ok">>, TRUE),
    ToolOk(<<"failed">>, FALSE),
    ToolErr(<<"Execution failed: ", "boom">>) }

\* The registry handed to the executor: name -> tool
ToolNames == { <<"calculator">>, <<"custom">> }

ToolExecute(tool_name, input) ==
  IF tool_name = <<"calculator">> THEN {CalculatorExecute(input)}
  ELSE CustomOutcomes


\* ----------------------------------------------------------- RuntimeError
RuntimeError(kind, arg) == [kind |-> kind, arg |-> arg]

\* Display of RuntimeError (thiserror #[error(...)] attributes)
ErrorToString(e) ==
  CASE e.kind = "LLMError" -> <<"LLM error: ">> \o e.arg
    [] e.kind = "ToolError" -> <<"Tool error: ">> \o e.arg
    [] e.kind = "ConfigError" -> <<"Configuration error: ">> \o e.arg
    [] e.kind = "Timeout" -> <<"Execution timeout after ">> \o e.arg \o <<"s">>
    [] e.kind = "MaxIterationsReached" -> <<"Max iterations reached: ">> \o e.arg
    [] e.kind = "ToolNotFound" -> <<"Tool not found: ">> \o e.arg
    [] e.kind = "InvalidToolCall" -> <<"Invalid tool call: ">> \o e.arg
    [] e.kind = "Stopped" -> <<"Execution stopped: ">> \o e.arg
    [] e.kind = "Other" -> <<"Runtime error: ">> \o e.arg

Ok(v) == [kind |-> "Ok", value |-> v]
Err(e) == [kind |-> "Err", error |-> e]

\* ------------------------------------------------------- ExecutionContext
Message(role, content) == [role |-> role, content |-> content]

TokenUsage(input_tokens, output_tokens) ==
  [input_tokens |-> input_tokens, output_tokens |-> output_tokens]

\* ExecutionContext::new; the id is a fresh uuid, started_at the clock
ExecutionContext_new(max_iterations, timeout, at) ==
  [ id |-> <<"uuid">>,
    messages |-> <<>>,
    iteration |-> 0,
    max_iterations |-> max_iterations,
    timeout |-> timeout,
    started_at |-> at,
    total_tokens |-> TokenUsage(U32Zero, U32Zero),
    total_cost |-> 0,
    tool_calls |-> <<>>,
    thoughts |-> <<>> ]

\* faulty variant: the new entry is put in front of the transcript
add_message_in_front(ctx, message) ==
  [ctx EXCEPT !.messages = <<message>> \o @]

add_message(ctx, message) ==
  [ctx EXCEPT !.messages = Append(@, message)]

\* faulty variant: the counter moves by two
increment_iteration_twice(ctx) == [ctx EXCEPT !.iteration = @ + 2]

increment_iteration(ctx) ==
  [ctx EXCEPT !.iteration = @ + 1]

\* faulty variant: the bound is compared with > instead of >=
is_max_iterations_reached_late(ctx) ==
  ctx.iteration > ctx.max_iterations

is_max_iterations_reached(ctx) ==
  ctx.iteration >= ctx.max_iterations

elapsed(ctx, at) == at - ctx.started_at

\* faulty variant: the deadline itself still counts as in time
is_timed_out_late(ctx, at) ==
  elapsed(ctx, at) > ctx.timeout

is_timed_out(ctx, at) ==
  elapsed(ctx, at) >= ctx.timeout

\* add_tokens: two u32 additions; overflow tells whether either left the range
add_tokens(ctx, usage) ==
  LET i == U32Add(ctx.total_tokens.input_tokens, usage.input_tokens)
      o == U32Add(ctx.total_tokens.output_tokens, usage.output_tokens)
  IN  [ctx |-> [ctx EXCEPT !.total_tokens = TokenUsage(i.value, o.value)],
       overflow |-> i.overflow \/ o.overflow]

\* faulty variant: the cost is not accumulated
add_cost_skipped(ctx, cost) == ctx

add_cost(ctx, cost) ==
  [ctx EXCEPT !.total_cost = @ + cost]

\* faulty variant: the record is not kept
record_tool_call_dropped(ctx, record) == ctx

record_tool_call(ctx, record) ==
  [ctx EXCEPT !.tool_calls = Append(@, record)]

\* faulty variant: the thought is not kept
record_thought_dropped(ctx, thought) == ctx

record_thought(ctx, thought) ==
  [ctx EXCEPT !.thoughts = Append(@, thought)]

\* total_tokens(): input + output as u32
total_tokens(ctx) ==
  U32Add(ctx.total_tokens.input_tokens, ctx.total_tokens.output_tokens)

ToolCallRecord(tool_name, tool_input, output, success, execution_time_ms, timestamp) ==
  [ tool_name |-> tool_name, input |-> tool_input, output |-> output,
    success |-> success, execution_time_ms |-> execution_time_ms,
    timestamp |-> timestamp ]

\* -------------------------------------------------------- ExecutionResult
StopReason(kind, message) == [kind |-> kind, message |-> message]

ExecutionResult_success(id, response, iterations, tool_calls, tokens, total_cost, execution_time_ms, thoughts) ==
  [ id |-> id, response |-> response, success |-> TRUE,
    iterations |-> iterations, tool_calls |-> tool_calls,
    total_tokens |-> tokens, total_cost |-> total_cost,
    execution_time_ms |-> execution_time_ms,
    stop_reason |-> StopReason("Completed", <<>>),
    thoughts |-> thoughts ]

\* faulty variant: a failure that reports success
ExecutionResult_failure_flagged_ok(id, error, iterations, tool_calls, tokens, total_cost, execution_time_ms, thoughts) ==
  [ id |-> id, response |-> <<>>, success |-> TRUE,
    iterations |-> iterations, tool_calls |-> tool_calls,
    total_tokens |-> tokens, total_cost |-> total_cost,
    execution_time_ms |-> execution_time_ms,
    stop_reason |-> StopReason("Error", error),
    thoughts |-> thoughts ]

ExecutionResult_failure(id, error, iterations, tool_calls, tokens, total_cost, execution_time_ms, thoughts) ==
  [ id |-> id, response |-> <<>>, success |-> FALSE,
    iterations |-> iterations, tool_calls |-> tool_calls,
    total_tokens |-> tokens, total_cost |-> total_cost,
    execution_time_ms |-> execution_time_ms,
    stop_reason |-> StopReason("Error", error),
    thoughts |-> thoughts ]

\* ---------------------------------------------------------- AgentExecutor
\* u64::MAX, digit by digit
U64MaxDigits ==
  <<"1", "8", "4", "4", "6", "7", "4", "4", "0", "7",
    "3", "7", "0", "9", "5", "5", "1", "6", "1", "5">>

RECURSIVE StripZeros(_)
StripZeros(s) ==
  IF s # <<>> /\ s[1] = "0" THEN StripZeros(Tail(s)) ELSE s

\* a <= b for digit strings of the same length
RECURSIVE DigitsLessEq(_, _)
DigitsLessEq(a, b) ==
  IF a = <<>> THEN TRUE
  ELSE IF DigitVal(a[1]) # DigitVal(b[1]) THEN DigitVal(a[1]) < DigitVal(b[1])
  ELSE DigitsLessEq(Tail(a), Tail(b))

\* the number the digits write is at most u64::MAX
FitsU64(digits) ==
  LET d == StripZeros(digits)
  IN  \/ Len(d) < Len(U64MaxDigits)
      \/ Len(d) = Len(U64MaxDigits) /\ DigitsLessEq(d, U64MaxDigits)

\* str::parse::<u64>
ParseU64(s) ==
  LET body == IF s # <<>> /\ s[1] = "+" THEN Tail(s) ELSE s
  IN  IF s = <<>> THEN Err(<<"cannot parse integer from empty string">>)
      ELSE IF body = <<>> \/ ~AllDigits(body)
      THEN Err(<<"invalid digit found in string">>)
      ELSE IF ~FitsU64(body)
      THEN Err(<<"number too large to fit in target type">>)
      ELSE Ok(DigitsValue(body))

ConfigErrorOf(r) ==
  IF r.kind = "Ok" THEN r
  ELSE Err(RuntimeError("ConfigError", <<"Invalid timeout format: ">> \o r.error))

\* faulty variant: the suffix "s" is tried before "ms"
parse_timeout_seconds_first(timeout_str) ==
  LET t == Trim(timeout_str)
      n == Len(t)
  IN  IF n >= 1 /\ t[n] = "s"
      THEN ConfigErrorOf(ParseU64(SubSeq(t, 1, n - 1)))
      ELSE ConfigErrorOf(ParseU64(t))

\* AgentExecutor::parse_timeout: seconds, "ms" is tried before "s"
parse_timeout(timeout_str) ==
  LET t == Trim(timeout_str)
      n == Len(t)
  IN  IF n >= 2 /\ t[n - 1] = "m" /\ t[n] = "s"
      THEN LET ms == ConfigErrorOf(ParseU64(SubSeq(t, 1, n - 2)))
           IN  IF ms.kind = "Ok" THEN Ok(ms.value \div 1000) ELSE ms
      ELSE IF n >= 1 /\ t[n] = "s"
      THEN ConfigErrorOf(ParseU64(SubSeq(t, 1, n - 1)))
      ELSE ConfigErrorOf(ParseU64(t))

\* faulty variant: the error's text is not carried into the result
BuildResult_message_lost(ctx, strategy_result, at) ==
  IF strategy_result.kind = "Ok"
  THEN ExecutionResult_success(ctx.id, strategy_result.value, ctx.iteration,
         ctx.tool_calls, total_tokens(ctx).value, ctx.total_cost,
         elapsed(ctx, at), ctx.thoughts)
  ELSE ExecutionResult_failure(ctx.id, <<>>,
         ctx.iteration, ctx.tool_calls, total_tokens(ctx).value,
         ctx.total_cost, elapsed(ctx, at), ctx.thoughts)

\* faulty variant: milliseconds are cut down to whole seconds
ToolFactory_parse_timeout_floored(timeout_str) ==
  LET t == Trim(timeout_str)
      n == Len(t)
  IN  IF n >= 2 /\ t[n - 1] = "m" /\ t[n] = "s"
      THEN LET ms == ConfigErrorOf(ParseU64(SubSeq(t, 1, n - 2)))
           IN  IF ms.kind = "Ok" THEN Ok((ms.value \div 1000) * 1000) ELSE ms
      ELSE LET secs == ConfigErrorOf(ParseU64(IF n >= 1 /\ t[n] = "s"
                                              THEN SubSeq(t, 1, n - 1) ELSE t))
           IN  IF secs.kind = "Ok" THEN Ok(secs.value * 1000) ELSE secs

\* ToolFactory::parse_timeout: a Duration, here in milliseconds
ToolFactory_parse_timeout(timeout_str) ==
  LET t == Trim(timeout_str)
      n == Len(t)
  IN  IF n >= 2 /\ t[n - 1] = "m" /\ t[n] = "s"
      THEN ConfigErrorOf(ParseU64(SubSeq(t, 1, n - 2)))
      ELSE LET secs == ConfigErrorOf(ParseU64(IF n >= 1 /\ t[n] = "s"
                                              THEN SubSeq(t, 1, n - 1) ELSE t))
           IN  IF secs.kind = "Ok" THEN Ok(secs.value * 1000) ELSE secs

\* The match on the strategy's Result in AgentExecutor::execute
BuildResult(ctx, strategy_result, at) ==
  IF strategy_result.kind = "Ok"
  THEN ExecutionResult_success(ctx.id, strategy_result.value, ctx.iteration,
         ctx.tool_calls, total_tokens(ctx).value, ctx.total_cost,
         elapsed(ctx, at), ctx.thoughts)
  ELSE ExecutionResult_failure(ctx.id, ErrorToString(strategy_result.error),
         ctx.iteration, ctx.tool_calls, total_tokens(ctx).value,
         ctx.total_cost, elapsed(ctx, at), ctx.thoughts)

\* AnthropicAdapter::calculate_cost at the default (Sonnet) prices of 3 and
\* 15 USD per million tokens, in millionths of a dollar
estimate_cost(usage) ==
  3 * U32ToNat(usage.input_tokens) + 15 * U32ToNat(usage.output_tokens)


\* ------------------------------------------------------------ environment
\* Configurations handed to the executor (execution.timeout is not checked
\* by the validator; max_iterations is validated to be positive).
TimeoutStrings ==
  { <<"2", "s">>,
    <<"1", "5", "0", "0", "m", "s">>,
    <<"5", "0", "0", "m", "s">>,
    <<" ", "3", " ">>,
    <<"x", "s">>,
    <<"1", "8", "4", "4", "6", "7", "4", "4", "0", "7",
      "3", "7", "0", "9", "5", "5", "1", "6", "1", "6", "s">>,
    <<>> }

SystemPrompts == { <<>>, <<"You are a helpful assistant.">> }

Configs ==
  [ timeout : TimeoutStrings,
    max_iterations : 1..MaxIter,
    system_prompt : SystemPrompts,
    model : {"claude-3-5-sonnet"} ]

Inputs == { <<"What is 2+2?">> }

\* Texts the model may reply with: one per shape the loop distinguishes
ModelOutputs ==
  { <<"ANSWER:", " ", "42">>,
    <<"ANSWER:", " ", "4">>,
    <<" ", "The result is 4", " ">>,
    <<"TOOL:", " ", "calculator", "(", "2", "+", "2", ")">>,
    <<"TOOL:", " ", "calculator", "(", "x", ")">>,
    <<"TOOL:", " ", "custom", "(", "{", "\"url\"", ":", " ", "\"u\"", "}", ")">>,
    <<"TOOL:", " ", "custom", "(", "{", "x", ")">>,
    <<"TOOL:", " ", "foo", "(", "x", ")">>,
    <<"TOOL:", " ", "calculator", "(", "2", "+", "2", ")", " ", "ANSWER:", " ", "4">>,
    <<"TOOL:", " ", "foo", "(", "x", ")", " ", "ANSWER:", " ", "4">>,
    <<"ANSWER:", " ", "4", " ", "TOOL:", " ", "calculator">>,
    <<"TOOL:", " ", "calculator">>,
    <<"TOOL:", " ", "calculator", ")", " ", "(">> }

TokenUsages ==
  { TokenUsage(U32FromNat(100), U32FromNat(50)),
    TokenUsage(U32FromNat(200), U32FromNat(100)) }

\* The responses llm.generate may return: each text with the usage the
\* adapter reports for it, the larger one for the texts with a tool call
UsageOf(content) ==
  CHOOSE u \in TokenUsages :
    U32ToNat(u.input_tokens) = IF Contains(content, "TOOL:") THEN 200 ELSE 100

ModelResponses ==
  { [content |-> c, usage |-> UsageOf(c)] : c \in ModelOutputs }

\* Time an awaited call (llm.generate, tool.execute) takes.  The clock
\* only moves forward and only while a call is awaited.
Latencies == { 0, SlowCall }
MaxClock == MaxSlowCalls * SlowCall

\* Display of the LLMError a failed generate returns
LLMErrors ==
  { <<"Rate limited: ", "None">>,
    <<"API error: ", "500", " - ", "overloaded">> }

\* In a build with overflow checks an overflowing u32 addition panics,
\* otherwise it wraps: both builds are possible.
OverflowChecks(overflow) == IF overflow THEN BOOLEAN ELSE {FALSE}

\* ------------------------------------------------------------ filesystem
\* A path is a sequence of components; an absolute location is the
\* sequence of names from the root directory.  There are no symbolic links.
Path(abs, comps) == [abs |-> abs, comps |-> comps]

Root == <<>>

Front(p) == SubSeq(p, 1, Len(p) - 1)

\* The kernel's lookup of the components rest from the directory cur:
\* ".." steps to the parent of a directory that exists, a name steps into
\* it; the last location need not exist.
RECURSIVE Walk(_, _, _)
Walk(f, cur, rest) ==
  IF rest = <<>> THEN [ok |-> TRUE, at |-> cur]
  ELSE IF cur \notin f.dirs THEN [ok |-> FALSE, at |-> cur]
  ELSE IF Head(rest) = ".."
       THEN Walk(f, IF cur = Root THEN Root ELSE Front(cur), Tail(rest))
       ELSE Walk(f, Append(cur, Head(rest)), Tail(rest))

IsFile(f, at) == at \in DOMAIN f.files

\* Path::exists, Path::is_dir, Path::canonicalize on an absolute path
PathExists(f, p) ==
  LET w == Walk(f, Root, p) IN w.ok /\ (w.at \in f.dirs \/ IsFile(f, w.at))
PathIsDir(f, p) ==
  LET w == Walk(f, Root, p) IN w.ok /\ w.at \in f.dirs
Canonicalize(f, p) == Walk(f, Root, p).at

\* Path::starts_with: whole components
StartsWith(p, base) == Len(base) <= Len(p) /\ SubSeq(p, 1, Len(base)) = base

\* the loop of resolve_path: the first of the path and its parents
\* (Path::parent drops the last component) that exists
RECURSIVE FirstExisting(_, _)
FirstExisting(f, p) ==
  IF PathExists(f, p) \/ p = Root THEN p ELSE FirstExisting(f, Front(p))

ToolError(kind, msg) == Err([kind |-> kind, msg |-> msg])

\* LocalBackend::resolve_path; a relative path without a sandbox is looked
\* up from the working directory, here the root
resolve_path(b, f, path) ==
  IF b.base_dir.kind = "Some"
  THEN LET base == b.base_dir.value
           absolute_path == IF path.abs THEN path.comps ELSE base \o path.comps
           check_path == FirstExisting(f, absolute_path)
       IN  IF PathExists(f, check_path)
              /\ ~StartsWith(Canonicalize(f, check_path), base)
           THEN ToolError("PermissionDenied", "Path outside allowed directory")
           ELSE Ok(absolute_path)
  ELSE Ok(path.comps)

\* mkdir(2)
Mkdir(f, p) ==
  LET w == Walk(f, Root, Front(p))
      target == Append(w.at, p[Len(p)])
  IN  IF p = Root THEN [status |-> "Exists", fs |-> f]
      ELSE IF ~(w.ok /\ w.at \in f.dirs) THEN [status |-> "NotFound", fs |-> f]
      ELSE IF p[Len(p)] = ".." THEN [status |-> "Exists", fs |-> f]
      ELSE IF target \in f.dirs \/ IsFile(f, target) THEN [status |-> "Exists", fs |-> f]
      ELSE [status |-> "Ok", fs |-> [f EXCEPT !.dirs = @ \cup {target}]]

\* std::fs::create_dir_all: mkdir, and on NotFound the parents first
RECURSIVE create_dir_all(_, _)
create_dir_all(f, p) ==
  LET first == Mkdir(f, p)
      parents == create_dir_all(f, Front(p))
      second == Mkdir(parents.fs, p)
  IN  IF first.status = "Ok" THEN [ok |-> TRUE, fs |-> first.fs]
      ELSE IF first.status = "Exists" THEN [ok |-> PathIsDir(f, p), fs |-> f]
      ELSE IF p = Root THEN [ok |-> FALSE, fs |-> f]
      ELSE IF ~parents.ok THEN parents
      ELSE IF second.status = "Ok" THEN [ok |-> TRUE, fs |-> second.fs]
      ELSE [ok |-> second.status = "Exists" /\ PathIsDir(parents.fs, p),
            fs |-> parents.fs]

\* std::fs::write: create or truncate the file the path leads to
WriteFile(f, p, content) ==
  LET w == Walk(f, Root, Front(p))
      target == Append(w.at, p[Len(p)])
  IN  IF p = Root \/ ~(w.ok /\ w.at \in f.dirs) \/ p[Len(p)] = ".."
         \/ target \in f.dirs
      THEN [ok |-> FALSE, fs |-> f]
      ELSE [ok |-> TRUE,
            fs |-> [f EXCEPT !.files =
                      [q \in DOMAIN f.files \cup {target} |->
                         IF q = target THEN content ELSE f.files[q]]]]

\* LocalBackend::read
local_read(b, f, path) ==
  LET resolved == resolve_path(b, f, path)
      at == Canonicalize(f, resolved.value)
  IN  IF resolved.kind = "Err" THEN [ret |-> resolved, fs |-> f]
      ELSE IF PathExists(f, resolved.value) /\ IsFile(f, at)
      THEN [ret |-> Ok(f.files[at]), fs |-> f]
      ELSE [ret |-> ToolError("FilesystemError", "Read error"), fs |-> f]

\* faulty variant: the read-only flag is not looked at
local_write_unguarded(b, f, path, content) ==
  LET resolved == resolve_path(b, f, path)
      dirs == create_dir_all(f, Front(resolved.value))
      written == WriteFile(dirs.fs, resolved.value, content)
  IN  IF resolved.kind = "Err" THEN [ret |-> resolved, fs |-> f]
      ELSE IF resolved.value # Root /\ ~dirs.ok
      THEN [ret |-> ToolError("FilesystemError", "Failed to create directories"),
            fs |-> dirs.fs]
      ELSE IF ~written.ok
      THEN [ret |-> ToolError("FilesystemError", "Write error"), fs |-> written.fs]
      ELSE [ret |-> Ok("()"), fs |-> written.fs]

\* LocalBackend::write
local_write(b, f, path, content) ==
  LET resolved == resolve_path(b, f, path)
      dirs == create_dir_all(f, Front(resolved.value))
      written == WriteFile(dirs.fs, resolved.value, content)
  IN  IF b.read_only
      THEN [ret |-> ToolError("PermissionDenied",
                      "Write operation not allowed on read-only filesystem"),
            fs |-> f]
      ELSE IF resolved.kind = "Err" THEN [ret |-> resolved, fs |-> f]
      ELSE IF resolved.value # Root /\ ~dirs.ok
      THEN [ret |-> ToolError("FilesystemError", "Failed to create directories"),
            fs |-> dirs.fs]
      ELSE IF ~written.ok
      THEN [ret |-> ToolError("FilesystemError", "Write error"), fs |-> written.fs]
      ELSE [ret |-> Ok("()"), fs |-> written.fs]

\* the names directly under a directory
Children(f, at) ==
  { q[Len(q)] : q \in { r \in f.dirs \cup DOMAIN f.files :
                          r # Root /\ Front(r) = at } }

\* LocalBackend::list: the names of the entries
local_list(b, f, path) ==
  LET resolved == resolve_path(b, f, path)
  IN  IF resolved.kind = "Err" THEN [ret |-> resolved, fs |-> f]
      ELSE IF ~PathIsDir(f, resolved.value)
      THEN [ret |-> ToolError("InvalidInput", "Path is not a directory"), fs |-> f]
      ELSE [ret |-> Ok(Children(f, Canonicalize(f, resolved.value))), fs |-> f]

\* std::fs::remove_dir_all / remove_file at a location
RemoveAt(f, at) ==
  [ dirs |-> { d \in f.dirs : ~StartsWith(d, at) },
    files |-> [q \in { r \in DOMAIN f.files : ~StartsWith(r, at) } |-> f.files[q]] ]

\* LocalBackend::delete
local_delete(b, f, path) ==
  LET resolved == resolve_path(b, f, path)
      at == Canonicalize(f, resolved.value)
  IN  IF b.read_only
      THEN [ret |-> ToolError("PermissionDenied",
                      "Delete operation not allowed on read-only filesystem"),
            fs |-> f]
      ELSE IF resolved.kind = "Err" THEN [ret |-> resolved, fs |-> f]
      ELSE IF ~PathExists(f, resolved.value) \/ at = Root
      THEN [ret |-> ToolError("FilesystemError", "Delete error"), fs |-> f]
      ELSE [ret |-> Ok("()"), fs |-> RemoveAt(f, at)]

\* LocalBackend::exists
local_exists(b, f, path) ==
  LET resolved == resolve_path(b, f, path)
  IN  IF resolved.kind = "Err" THEN [ret |-> resolved, fs |-> f]
      ELSE [ret |-> Ok(PathExists(f, resolved.value)), fs |-> f]

\* LocalBackend::metadata: is_directory and, for a file, its content as size
local_metadata(b, f, path) ==
  LET resolved == resolve_path(b, f, path)
      at == Canonicalize(f, resolved.value)
  IN  IF resolved.kind = "Err" THEN [ret |-> resolved, fs |-> f]
      ELSE IF ~PathExists(f, resolved.value)
      THEN [ret |-> ToolError("FilesystemError", "Metadata error"), fs |-> f]
      ELSE [ret |-> Ok([is_directory |-> at \in f.dirs]), fs |-> f]

\* The machine before the tool is used: the sandbox root /box with one
\* file, and /etc/passwd outside it.
SandboxRoot == <<"box">>

InitialFs ==
  [ dirs |-> { Root, <<"box">>, <<"etc">> },
    files |-> ( <<"box", "f">> :> "data" @@ <<"etc", "passwd">> :> "secret" ) ]

\* LocalBackend::new and LocalBackend::with_sandbox(base_dir, read_only)
Backends ==
  { [base_dir |-> None, read_only |-> FALSE],
    [base_dir |-> Some(SandboxRoot), read_only |-> FALSE],
    [base_dir |-> Some(SandboxRoot), read_only |-> TRUE] }

\* Paths handed to the backend
FsPaths ==
  { Path(FALSE, <<"f">>),
    Path(FALSE, <<"new", "g">>),
    Path(FALSE, <<"new">>),
    Path(FALSE, <<"..", "etc", "passwd">>),
    Path(FALSE, <<"..", "out">>),
    Path(FALSE, <<"new", "..", "..", "out">>),
    Path(FALSE, <<"new", "..", "..", "etc", "passwd">>),
    Path(TRUE, <<"etc", "passwd">>),
    Path(TRUE, <<"box", "f">>),
    Path(TRUE, <<"nope", "x">>) }

FsContents == { "w" }

\* ------------------------------------------------------------ run history
\* The tables runs, tool_calls and thoughts; a row's place in its table is
\* its AUTOINCREMENT id.
ToolCallEntry(sequence_number, tc) ==
  [ sequence_number |-> sequence_number, tool_name |-> tc.tool_name,
    input |-> tc.input, output |-> tc.output, success |-> tc.success,
    execution_time_ms |-> tc.execution_time_ms, timestamp |-> tc.timestamp ]

ThoughtEntry(sequence_number, content) ==
  [ sequence_number |-> sequence_number, content |-> content ]

\* namra_storage::StopReason, the stored counterpart of the runtime's
StoredStopReason(name) == [stored |-> name]

StoredStopReasons ==
  { StoredStopReason(name) :
      name \in {"Completed", "MaxIterations", "Timeout", "Error", "UserStop"} }

\* faulty variant: a timeout is stored as an error
convert_stop_reason_timeout_as_error(reason) ==
  CASE reason.kind = "Completed" -> StoredStopReason("Completed")
    [] reason.kind = "MaxIterations" -> StoredStopReason("MaxIterations")
    [] reason.kind = "Timeout" -> StoredStopReason("Error")
    [] reason.kind = "Error" -> StoredStopReason("Error")
    [] reason.kind = "UserStop" -> StoredStopReason("UserStop")

\* convert_stop_reason
convert_stop_reason(reason) ==
  CASE reason.kind = "Completed" -> StoredStopReason("Completed")
    [] reason.kind = "MaxIterations" -> StoredStopReason("MaxIterations")
    [] reason.kind = "Timeout" -> StoredStopReason("Timeout")
    [] reason.kind = "Error" -> StoredStopReason("Error")
    [] reason.kind = "UserStop" -> StoredStopReason("UserStop")

\* impl Display for StopReason: the text of the stop_reason column
StoredStopReason_to_string(r) ==
  CASE r = StoredStopReason("Completed") -> "completed"
    [] r = StoredStopReason("MaxIterations") -> "max_iterations"
    [] r = StoredStopReason("Timeout") -> "timeout"
    [] r = StoredStopReason("Error") -> "error"
    [] r = StoredStopReason("UserStop") -> "user_stop"

\* impl FromStr for StopReason
StoredStopReason_from_str(text) ==
  CASE text = "completed" -> Ok(StoredStopReason("Completed"))
    [] text = "max_iterations" -> Ok(StoredStopReason("MaxIterations"))
    [] text = "timeout" -> Ok(StoredStopReason("Timeout"))
    [] text = "error" -> Ok(StoredStopReason("Error"))
    [] text = "user_stop" -> Ok(StoredStopReason("UserStop"))
    [] OTHER -> Err(<<"Unknown stop reason: ", text>>)

\* faulty variant: the entries are numbered from 1
RunRecordOf_from_one(cfg, prompt, r) ==
  [ id |-> r.id,
    input_prompt |-> prompt,
    response |-> Some(r.response),
    success |-> r.success,
    stop_reason |-> convert_stop_reason(r.stop_reason),
    error_message |-> IF r.stop_reason.kind = "Error"
                      THEN Some(r.stop_reason.message) ELSE None,
    iterations |-> r.iterations,
    llm_model |-> Some(cfg.model),
    tool_calls |-> [i \in 1..Len(r.tool_calls) |->
                      ToolCallEntry(i, r.tool_calls[i])],
    thoughts |-> [i \in 1..Len(r.thoughts) |-> ThoughtEntry(i, r.thoughts[i])] ]

\* The RunRecord save_run_history builds: enumerate() numbers from 0
RunRecordOf(cfg, prompt, r) ==
  [ id |-> r.id,
    input_prompt |-> prompt,
    response |-> Some(r.response),
    success |-> r.success,
    stop_reason |-> convert_stop_reason(r.stop_reason),
    error_message |-> IF r.stop_reason.kind = "Error"
                      THEN Some(r.stop_reason.message) ELSE None,
    iterations |-> r.iterations,
    llm_model |-> Some(cfg.model),
    tool_calls |-> [i \in 1..Len(r.tool_calls) |->
                      ToolCallEntry(i - 1, r.tool_calls[i])],
    thoughts |-> [i \in 1..Len(r.thoughts) |->
                    ThoughtEntry(i - 1, r.thoughts[i])] ]

\* a row of a child table: the entry under the run's id
Row(run_id, entry) == [run_id |-> run_id, entry |-> entry]

\* SqliteStorage::save_run: one transaction; runs.id is the primary key
save_run(st, rec) ==
  IF \E i \in 1..Len(st.runs) : st.runs[i].id = rec.id
  THEN [ret |-> Err("UNIQUE constraint failed: runs.id"), storage |-> st]
  ELSE [ret |-> Ok("()"),
        storage |->
          [ runs |-> Append(st.runs,
                     [rec EXCEPT !.stop_reason = StoredStopReason_to_string(@),
                                 !.tool_calls = <<>>,
                                 !.thoughts = <<>>]),
            tool_calls |-> st.tool_calls \o
              [i \in 1..Len(rec.tool_calls) |-> Row(rec.id, rec.tool_calls[i])],
            thoughts |-> st.thoughts \o
              [i \in 1..Len(rec.thoughts) |-> Row(rec.id, rec.thoughts[i])] ]]

\* ORDER BY sequence_number; rows with equal numbers keep the table order
RECURSIVE OrderBySequenceNumber(_)
OrderBySequenceNumber(rows) ==
  IF rows = <<>> THEN <<>>
  ELSE LET least == Min({rows[i].entry.sequence_number : i \in 1..Len(rows)})
           k == Min({i \in 1..Len(rows) : rows[i].entry.sequence_number = least})
       IN  <<rows[k]>> \o
           OrderBySequenceNumber([i \in 1..(Len(rows) - 1) |->
                                    IF i < k THEN rows[i] ELSE rows[i + 1]])

\* the rows of a table of one run, as entries with their row id
RowsOf(table, run_id) ==
  LET ids == SelectSeq([i \in 1..Len(table) |-> i],
                       LAMBDA i : table[i].run_id = run_id)
  IN  [j \in 1..Len(ids) |-> [id |-> ids[j], run_id |-> run_id,
                              entry |-> table[ids[j]].entry]]

\* SqliteStorage::get_tool_calls / get_thoughts
get_tool_calls(st, run_id) == OrderBySequenceNumber(RowsOf(st.tool_calls, run_id))
get_thoughts(st, run_id) == OrderBySequenceNumber(RowsOf(st.thoughts, run_id))

\* row.get::<_, String>(6)?.parse().unwrap_or(StopReason::Error)
ReadStopReason(text) ==
  LET parsed == StoredStopReason_from_str(text)
  IN  IF parsed.kind = "Ok" THEN parsed.value ELSE StoredStopReason("Error")

\* SqliteStorage::get_run
get_run(st, id) ==
  LET hits == {i \in 1..Len(st.runs) : st.runs[i].id = id}
  IN  IF hits = {} THEN None
      ELSE Some([st.runs[Min(hits)] EXCEPT
                   !.stop_reason = ReadStopReason(@),
                   !.tool_calls = get_tool_calls(st, id),
                   !.thoughts = get_thoughts(st, id)])

\* The history database before the run: one earlier run of two turns
EarlierResult ==
  ExecutionResult_success(<<"uuid-earlier">>, <<"4">>, 2,
    << ToolCallRecord(<<"calculator">>,
         JsonObject(<<JsonField("expression", <<"2", "+", "2">>)>>),
         Some(<<"2", "+", "2", " = ", "4">>), TRUE, 0, 0) >>,
    U32FromNat(300), 2100, 0,
    << <<"TOOL:", " ", "calculator", "(", "2", "+", "2", ")">>,
       <<"ANSWER:", " ", "4">> >>)

EmptyStorage == [runs |-> <<>>, tool_calls |-> <<>>, thoughts |-> <<>>]

InitialStorage ==
  save_run(EmptyStorage,
           RunRecordOf([model |-> "claude-3-5-sonnet"], <<"What is 2+2?">>,
                       EarlierResult)).storage

\* ------------------------------------------------------------------ state
VARIABLES
  config,           \* AgentExecutor.config
  input,            \* the argument of execute
  pc,               \* where execute stands
  context,          \* the run's ExecutionContext
  now,              \* the clock
  llm_calls,        \* the requests llm.generate has received
  llm_returns,      \* what llm.generate returned, call by call
  tool_execs,       \* the tool.execute calls made and what they returned
  strategy_return,  \* what Strategy::execute returned
  result,           \* what AgentExecutor::execute returned
  results_built,    \* ExecutionResult values constructed
  backend,          \* the LocalBackend of the filesystem tool
  fs,               \* the directories and files of the machine
  fs_ret,           \* the last backend operation and what it returned
  storage,          \* the tables of the run history database
  history,          \* whether the run was written to the history
  other,            \* a second call of execute on the same executor
  builder,          \* the AgentExecutorBuilder
  built,            \* the builder that build consumed and what it returned
  fetched,          \* what the last get_run returned
  tool_timeout      \* what ToolFactory::parse_timeout returned

\* the state of a run of the executor
run == << config, input, pc, context, now, llm_calls, llm_returns,
          tool_execs, strategy_return, result, results_built >>

\* the state outside the run
aux == << backend, fs, fs_ret, storage, history, other, builder, built,
         fetched,
                  tool_timeout >>

vars == << run, aux >>

NoContext == [kind |-> "None"]

Init ==
  /\ config \in Configs
  /\ input \in Inputs
  /\ pc = "idle"
  /\ context = NoContext
  /\ now = 0
  /\ llm_calls = <<>>
  /\ llm_returns = <<>>
  /\ tool_execs = <<>>
  /\ strategy_return = None
  /\ result = None
  /\ results_built = 0
  /\ backend = [base_dir |-> Some(SandboxRoot), read_only |-> FALSE]
  /\ fs = InitialFs
  /\ fs_ret = None
  /\ storage = InitialStorage
  /\ history = "none"
  /\ other = None
  /\ builder = None
  /\ built = None
  /\ fetched = None
  /\ tool_timeout = None

\* The tail of AgentExecutor::execute once the strategy has returned sret
\* with the context ctx at time at: build the result and return Ok(result).
\* context.total_tokens() is a u32 addition.
Conclude(ctx, sret, at) ==
  /\ context' = ctx
  /\ strategy_return' = sret
  /\ \E checks \in OverflowChecks(total_tokens(ctx).overflow) :
       IF checks
       THEN /\ pc' = "panicked"
            /\ UNCHANGED << result, results_built >>
       ELSE /\ pc' = "done"
            /\ result' = Ok(BuildResult(ctx, sret, at))
            /\ results_built' = results_built + 1

\* execute, malformed timeout: parse_timeout(..)? returns the ConfigError
ExecuteConfigError ==
  /\ pc = "idle"
  /\ parse_timeout(config.timeout).kind = "Err"
  /\ pc' = "failed"
  /\ result' = parse_timeout(config.timeout)
  /\ UNCHANGED << aux, config, input, context, now, llm_calls, llm_returns,
                  tool_execs, strategy_return, results_built >>

\* faulty variant: the system message is added even when the prompt is empty
ExecuteBegin_always_system ==
  /\ pc = "idle"
  /\ parse_timeout(config.timeout).kind = "Ok"
  /\ LET timeout == parse_timeout(config.timeout).value * 1000
         fresh == ExecutionContext_new(config.max_iterations, timeout, now)
         seeded == add_message(fresh, Message("system", config.system_prompt))
     IN  context' = add_message(seeded, Message("user", input))
  /\ pc' = "guard"
  /\ UNCHANGED << aux, config, input, now, llm_calls, llm_returns, tool_execs,
                  strategy_return, result, results_built >>

\* execute up to the call of the strategy: create and seed the context
ExecuteBegin ==
  /\ pc = "idle"
  /\ parse_timeout(config.timeout).kind = "Ok"
  /\ LET timeout == parse_timeout(config.timeout).value * 1000
         fresh == ExecutionContext_new(config.max_iterations, timeout, now)
         seeded == IF config.system_prompt # <<>>
                   THEN add_message(fresh, Message("system", config.system_prompt))
                   ELSE fresh
     IN  context' = add_message(seeded, Message("user", input))
  /\ pc' = "guard"
  /\ UNCHANGED << aux, config, input, now, llm_calls, llm_returns, tool_execs,
                  strategy_return, result, results_built >>

\* faulty variant: the last observation is taken off the transcript
GuardMaxIterations_forgets_observation ==
  /\ pc = "guard"
  /\ is_max_iterations_reached(context)
  /\ Conclude([context EXCEPT !.messages = SubSeq(@, 1, Len(@) - 1)],
       Err(RuntimeError("MaxIterationsReached", <<ToString(context.max_iterations)>>)),
       now)
  /\ UNCHANGED << aux, config, input, now, llm_calls, llm_returns, tool_execs >>

\* top of the loop, iteration limit reached
GuardMaxIterations ==
  /\ pc = "guard"
  /\ is_max_iterations_reached(context)
  /\ Conclude(context,
       Err(RuntimeError("MaxIterationsReached", <<ToString(context.max_iterations)>>)),
       now)
  /\ UNCHANGED << aux, config, input, now, llm_calls, llm_returns, tool_execs >>

\* faulty variant: the timeout is tested whatever the iteration count
GuardTimeout_unordered ==
  /\ pc = "guard"
  /\ is_timed_out(context, now)
  /\ Conclude(context,
       Err(RuntimeError("Timeout", <<ToString(context.timeout \div 1000)>>)),
       now)
  /\ UNCHANGED << aux, config, input, now, llm_calls, llm_returns, tool_execs >>

\* top of the loop, timed out
GuardTimeout ==
  /\ pc = "guard"
  /\ ~is_max_iterations_reached(context)
  /\ is_timed_out(context, now)
  /\ Conclude(context,
       Err(RuntimeError("Timeout", <<ToString(context.timeout \div 1000)>>)),
       now)
  /\ UNCHANGED << aux, config, input, now, llm_calls, llm_returns, tool_execs >>

\* faulty variant: the request carries only the newest message
CallLLM_last_only ==
  /\ pc = "guard"
  /\ ~is_max_iterations_reached(context)
  /\ ~is_timed_out(context, now)
  /\ context' = increment_iteration(context)
  /\ llm_calls' = Append(llm_calls,
       [messages |-> <<context.messages[Len(context.messages)]>>,
        model |-> config.model,
        at |-> now, iteration |-> context'.iteration])
  /\ pc' = "llm"
  /\ UNCHANGED << aux, config, input, now, llm_returns, tool_execs,
                  strategy_return, result, results_built >>

\* both guards pass: increment, build the request, call llm.generate
CallLLM ==
  /\ pc = "guard"
  /\ ~is_max_iterations_reached(context)
  /\ ~is_timed_out(context, now)
  /\ context' = increment_iteration(context)
  /\ llm_calls' = Append(llm_calls,
       [messages |-> context'.messages, model |-> config.model, at |-> now,
        iteration |-> context'.iteration])
  /\ pc' = "llm"
  /\ UNCHANGED << aux, config, input, now, llm_returns, tool_execs,
                  strategy_return, result, results_built >>

\* faulty variant: a failed model call is tried again at the next guard
LLMFail_retried ==
  /\ pc = "llm"
  /\ \E e \in LLMErrors, d \in Latencies :
       /\ now + d <= MaxClock
       /\ now' = now + d
       /\ llm_returns' = Append(llm_returns, Err(e))
  /\ pc' = "guard"
  /\ UNCHANGED << aux, config, input, context, llm_calls, tool_execs,
                  strategy_return, result, results_built >>

\* llm.generate(..).await? returns an error
LLMFail ==
  /\ pc = "llm"
  /\ \E e \in LLMErrors, d \in Latencies :
       /\ now + d <= MaxClock
       /\ now' = now + d
       /\ llm_returns' = Append(llm_returns, Err(e))
       /\ Conclude(context, Err(RuntimeError("LLMError", e)), now + d)
  /\ UNCHANGED << aux, config, input, llm_calls, tool_execs >>

\* The context after a response: tokens, cost, thought, assistant message
AfterResponse(ctx, content, usage) ==
  LET counted == add_tokens(ctx, usage)
      costed == add_cost(counted.ctx, estimate_cost(usage))
      thought == record_thought(costed, content)
  IN  [ctx |-> add_message(thought, Message("assistant", content)),
       overflow |-> counted.overflow]

\* faulty variant: the final answer is looked for before the tool call
StepOutcome_answer_first(content) ==
  LET call == extract_tool_call(content)
  IN  IF Contains(content, "ANSWER:")
      THEN [kind |-> "Return", value |-> Ok(extract_answer(content))]
      ELSE IF call.kind = "Panic" THEN [kind |-> "Panic"]
      ELSE IF call.kind = "Some"
      THEN IF call.value.tool_name \in ToolNames
           THEN [kind |-> "Dispatch", tool_name |-> call.value.tool_name,
                 tool_input |-> BuildToolInput(call.value.argument)]
           ELSE [kind |-> "Return",
                 value |-> Err(RuntimeError("ToolNotFound", call.value.tool_name))]
      ELSE IF is_final_answer(content)
      THEN [kind |-> "Return", value |-> Ok(extract_answer(content))]
      ELSE [kind |-> "Return",
            value |-> Err(RuntimeError("InvalidToolCall",
              <<"Response contained neither tool call nor final answer">>))]

\* faulty variant: the tool name is not looked up in the registry
StepOutcome_no_lookup(content) ==
  LET call == extract_tool_call(content)
  IN  IF call.kind = "Panic" THEN [kind |-> "Panic"]
      ELSE IF call.kind = "Some"
      THEN [kind |-> "Dispatch", tool_name |-> call.value.tool_name,
            tool_input |-> BuildToolInput(call.value.argument)]
      ELSE IF is_final_answer(content)
      THEN [kind |-> "Return", value |-> Ok(extract_answer(content))]
      ELSE [kind |-> "Return",
            value |-> Err(RuntimeError("InvalidToolCall",
              <<"Response contained neither tool call nor final answer">>))]

\* What the loop does with a response once it is recorded
StepOutcome(content) ==
  LET call == extract_tool_call(content)
  IN  IF call.kind = "Panic" THEN [kind |-> "Panic"]
      ELSE IF call.kind = "Some"
      THEN IF call.value.tool_name \in ToolNames
           THEN [kind |-> "Dispatch", tool_name |-> call.value.tool_name,
                 tool_input |-> BuildToolInput(call.value.argument)]
           ELSE [kind |-> "Return",
                 value |-> Err(RuntimeError("ToolNotFound", call.value.tool_name))]
      ELSE IF is_final_answer(content)
      THEN [kind |-> "Return", value |-> Ok(extract_answer(content))]
      ELSE [kind |-> "Return",
            value |-> Err(RuntimeError("InvalidToolCall",
              <<"Response contained neither tool call nor final answer">>))]

\* faulty variant: the timeout is tested again when the response arrives
LLMRespond_checks_deadline(content, usage, d) ==
  /\ pc = "llm"
  /\ now + d <= MaxClock
  /\ now' = now + d
  /\ llm_returns' = Append(llm_returns, Ok([content |-> content, usage |-> usage]))
  /\ LET after == AfterResponse(context, content, usage)
         step == StepOutcome(content)
     IN  \E checks \in OverflowChecks(after.overflow) :
           IF checks
           THEN /\ pc' = "panicked"
                /\ UNCHANGED << context, tool_execs, strategy_return, result,
                                results_built >>
           ELSE IF is_timed_out(context, now + d)
           THEN /\ Conclude(after.ctx,
                     Err(RuntimeError("Timeout", <<ToString(context.timeout \div 1000)>>)),
                     now + d)
                /\ UNCHANGED tool_execs
           ELSE CASE step.kind = "Panic" ->
                       /\ pc' = "panicked"
                       /\ context' = after.ctx
                       /\ UNCHANGED << tool_execs, strategy_return, result,
                                       results_built >>
                  [] step.kind = "Dispatch" ->
                       /\ pc' = "tool"
                       /\ context' = after.ctx
                       /\ tool_execs' = Append(tool_execs,
                            [tool_name |-> step.tool_name,
                             input |-> step.tool_input,
                             tool_start |-> now + d,
                             returned |-> None])
                       /\ UNCHANGED << strategy_return, result, results_built >>
                  [] step.kind = "Return" ->
                       /\ Conclude(after.ctx, step.value, now + d)
                       /\ UNCHANGED tool_execs
  /\ UNCHANGED << aux, config, input, llm_calls >>

\* llm.generate returns a response; the loop runs to its next await or return
LLMRespond(content, usage, d) ==
  /\ pc = "llm"
  /\ now + d <= MaxClock
  /\ now' = now + d
  /\ llm_returns' = Append(llm_returns, Ok([content |-> content, usage |-> usage]))
  /\ LET after == AfterResponse(context, content, usage)
         step == StepOutcome(content)
     IN  \E checks \in OverflowChecks(after.overflow) :
           IF checks
           THEN /\ pc' = "panicked"
                /\ UNCHANGED << context, tool_execs, strategy_return, result,
                                results_built >>
           ELSE CASE step.kind = "Panic" ->
                       /\ pc' = "panicked"
                       /\ context' = after.ctx
                       /\ UNCHANGED << tool_execs, strategy_return, result,
                                       results_built >>
                  [] step.kind = "Dispatch" ->
                       /\ pc' = "tool"
                       /\ context' = after.ctx
                       /\ tool_execs' = Append(tool_execs,
                            [tool_name |-> step.tool_name,
                             input |-> step.tool_input,
                             tool_start |-> now + d,
                             returned |-> None])
                       /\ UNCHANGED << strategy_return, result, results_built >>
                  [] step.kind = "Return" ->
                       /\ Conclude(after.ctx, step.value, now + d)
                       /\ UNCHANGED tool_execs
  /\ UNCHANGED << aux, config, input, llm_calls >>

Last(s) == s[Len(s)]

\* the call in flight has returned out
Returned(execs, out) ==
  [execs EXCEPT ![Len(execs)] = [@ EXCEPT !.returned = Some(out)]]

\* faulty variant: the tool's error is fed back as an observation
ToolFail_observed ==
  /\ pc = "tool"
  /\ \E out \in ToolExecute(Last(tool_execs).tool_name, Last(tool_execs).input),
        d \in Latencies :
       /\ out.kind = "Err"
       /\ now + d <= MaxClock
       /\ now' = now + d
       /\ tool_execs' = Returned(tool_execs, out)
       /\ context' = add_message(context,
            Message("user", <<"Tool Result from ">> \o Last(tool_execs).tool_name
                            \o <<": ">> \o out.content))
  /\ pc' = "guard"
  /\ UNCHANGED << aux, config, input, llm_calls, llm_returns,
                  strategy_return, result, results_built >>

\* tool.execute(..).await? returns a ToolError
ToolFail ==
  /\ pc = "tool"
  /\ \E out \in ToolExecute(Last(tool_execs).tool_name, Last(tool_execs).input),
        d \in Latencies :
       /\ out.kind = "Err"
       /\ now + d <= MaxClock
       /\ now' = now + d
       /\ tool_execs' = Returned(tool_execs, out)
       /\ Conclude(context, Err(RuntimeError("ToolError", out.content)), now + d)
  /\ UNCHANGED << aux, config, input, llm_calls, llm_returns >>

\* faulty variant: an output with success = false ends the run
ToolReturn_stops_on_failure ==
  /\ pc = "tool"
  /\ \E out \in ToolExecute(Last(tool_execs).tool_name, Last(tool_execs).input),
        d \in Latencies :
       /\ out.kind = "Ok"
       /\ now + d <= MaxClock
       /\ now' = now + d
       /\ tool_execs' = Returned(tool_execs, out)
       /\ LET call == Last(tool_execs)
              recorded == record_tool_call(context,
                ToolCallRecord(call.tool_name, call.input, Some(out.content),
                               out.success, d, call.tool_start))
              observation == <<"Tool Result from ">> \o call.tool_name
                             \o <<": ">> \o out.content
          IN  IF out.success
              THEN /\ context' = add_message(recorded, Message("user", observation))
                   /\ pc' = "guard"
                   /\ UNCHANGED << strategy_return, result, results_built >>
              ELSE Conclude(recorded, Err(RuntimeError("ToolError", out.content)),
                            now + d)
  /\ UNCHANGED << aux, config, input, llm_calls, llm_returns >>

\* tool.execute returns an output: record it, add the observation, continue
ToolReturn ==
  /\ pc = "tool"
  /\ \E out \in ToolExecute(Last(tool_execs).tool_name, Last(tool_execs).input),
        d \in Latencies :
       /\ out.kind = "Ok"
       /\ now + d <= MaxClock
       /\ now' = now + d
       /\ LET call == Last(tool_execs)
              recorded == record_tool_call(context,
                ToolCallRecord(call.tool_name, call.input, Some(out.content),
                               out.success, d, call.tool_start))
              observation == <<"Tool Result from ">> \o call.tool_name
                             \o <<": ">> \o out.content
          IN  /\ context' = add_message(recorded, Message("user", observation))
              /\ tool_execs' = Returned(tool_execs, out)
  /\ pc' = "guard"
  /\ UNCHANGED << aux, config, input, llm_calls, llm_returns,
                  strategy_return, result, results_built >>

\* run command: save_run_history(&config, input, &result) succeeds
SaveRunHistory ==
  /\ pc = "done"
  /\ history = "none"
  /\ LET saved == save_run(storage, RunRecordOf(config, input, result.value))
     IN  /\ storage' = saved.storage
         /\ history' = IF saved.ret.kind = "Ok" THEN "saved" ELSE "failed"
  /\ UNCHANGED << run, backend, fs, fs_ret, other, builder, built, fetched,
                  tool_timeout >>

\* run command: the database cannot be opened or written; a warning only
SaveRunHistoryFails ==
  /\ pc = "done"
  /\ history = "none"
  /\ history' = "failed"
  /\ UNCHANGED << run, backend, fs, fs_ret, storage, other, builder, built,
                  fetched,
                  tool_timeout >>

Next ==
  \/ ExecuteConfigError
  \/ ExecuteBegin
  \/ GuardMaxIterations
  \/ GuardTimeout
  \/ CallLLM
  \/ LLMFail
  \/ \E response \in ModelResponses, d \in Latencies :
       LLMRespond(response.content, response.usage, d)
  \/ ToolFail
  \/ ToolReturn
  \/ SaveRunHistory
  \/ SaveRunHistoryFails

Spec == Init /\ [][Next]_vars

TypeOK ==
  /\ pc \in {"idle", "failed", "guard", "llm", "tool", "done", "panicked"}
  /\ results_built \in 0..1


\* ---------------------------------------------------- token accumulation
\* A context that only receives usages, as in test_token_tracking: the
\* usages are any u32 pairs an adapter may report, taken from both ends
\* of the range.
WideTokenUsages ==
  TokenUsages \cup
  { TokenUsage(U32Zero, U32Zero),
    TokenUsage(U32(Limb - 1, Limb - 1), U32Zero),
    TokenUsage(U32(Limb \div 2, 0), U32(Limb \div 2, 0)),
    TokenUsage(U32FromNat(1), U32FromNat(1)) }

TokenConfig ==
  [ timeout |-> <<"6", "0", "s">>, max_iterations |-> 10,
    system_prompt |-> <<>>, model |-> "claude-3-5-sonnet" ]

TokenInit ==
  /\ config = TokenConfig
  /\ input \in Inputs
  /\ pc = "tokens"
  /\ context = ExecutionContext_new(10, 60000, 0)
  /\ now = 0
  /\ llm_calls = <<>>
  /\ llm_returns = <<>>
  /\ tool_execs = <<>>
  /\ strategy_return = None
  /\ result = None
  /\ results_built = 0
  /\ backend = [base_dir |-> Some(SandboxRoot), read_only |-> FALSE]
  /\ fs = InitialFs
  /\ fs_ret = None
  /\ storage = InitialStorage
  /\ history = "none"
  /\ other = None
  /\ builder = None
  /\ built = None
  /\ fetched = None
  /\ tool_timeout = None

\* ctx.add_tokens(usage); llm_returns keeps the usages handed over
TokensAdd(usage) ==
  /\ pc = "tokens"
  /\ Len(llm_returns) < MaxAdds
  /\ llm_returns' = Append(llm_returns, Ok([content |-> <<>>, usage |-> usage]))
  /\ \E checks \in OverflowChecks(add_tokens(context, usage).overflow) :
       IF checks
       THEN pc' = "panicked" /\ UNCHANGED context
       ELSE pc' = pc /\ context' = add_tokens(context, usage).ctx
  /\ UNCHANGED << aux, config, input, now, llm_calls, tool_execs, strategy_return,
                  result, results_built >>

\* ctx.total_tokens(); result keeps the value read
TokensTotal ==
  /\ pc = "tokens"
  /\ \E checks \in OverflowChecks(total_tokens(context).overflow) :
       IF checks
       THEN pc' = "panicked" /\ UNCHANGED result
       ELSE pc' = pc /\ result' = Some(total_tokens(context).value)
  /\ UNCHANGED << aux, config, input, context, now, llm_calls, llm_returns,
                  tool_execs, strategy_return, results_built >>

TokenNext ==
  \/ \E usage \in WideTokenUsages : TokensAdd(usage)
  \/ TokensTotal

TokenSpec == TokenInit /\ [][TokenNext]_vars


\* ------------------------------------------------ filesystem backend use
FsInit ==
  /\ config = TokenConfig
  /\ input \in Inputs
  /\ pc = "fs"
  /\ context = NoContext
  /\ now = 0
  /\ llm_calls = <<>>
  /\ llm_returns = <<>>
  /\ tool_execs = <<>>
  /\ strategy_return = None
  /\ result = None
  /\ results_built = 0
  /\ backend \in Backends
  /\ fs = InitialFs
  /\ fs_ret = None
  /\ storage = InitialStorage
  /\ history = "none"
  /\ other = None
  /\ builder = None
  /\ built = None
  /\ fetched = None
  /\ tool_timeout = None

\* one call of a backend operation: its return value and its effect
FsCall(op, path, out) ==
  /\ pc = "fs"
  /\ fs_ret' = [kind |-> "Some", op |-> op, path |-> path, ret |-> out.ret,
                before |-> fs]
  /\ fs' = out.fs
  /\ UNCHANGED << run, backend, storage, history, other, builder, built,
                  fetched,
                  tool_timeout >>

FsRead(path) == FsCall("read", path, local_read(backend, fs, path))
FsWrite(path, content) ==
  FsCall("write", path, local_write(backend, fs, path, content))
FsList(path) == FsCall("list", path, local_list(backend, fs, path))
FsDelete(path) == FsCall("delete", path, local_delete(backend, fs, path))
FsExists(path) == FsCall("exists", path, local_exists(backend, fs, path))
FsMetadata(path) == FsCall("metadata", path, local_metadata(backend, fs, path))

FsNext ==
  \/ \E path \in FsPaths : FsRead(path)
  \/ \E path \in FsPaths, content \in FsContents : FsWrite(path, content)
  \/ \E path \in FsPaths : FsList(path)
  \/ \E path \in FsPaths : FsDelete(path)
  \/ \E path \in FsPaths : FsExists(path)
  \/ \E path \in FsPaths : FsMetadata(path)

FsSpec == FsInit /\ [][FsNext]_vars


\* ------------------------------------------------------ executor builder
\* AgentExecutorBuilder::new.  The tools map is modelled by its key set.
AgentExecutorBuilder_new ==
  [config |-> None, llm |-> None, tools |-> {}, strategy |-> None]

builder_config(b, c) == [b EXCEPT !.config = Some(c)]

builder_llm(b, l) == [b EXCEPT !.llm = Some(l)]

builder_tool(b, name) == [b EXCEPT !.tools = @ \cup {name}]

builder_tools(b, names) == [b EXCEPT !.tools = @ \cup names]

builder_strategy(b, st) == [b EXCEPT !.strategy = Some(st)]

AgentExecutor_new(c, l, t, st) ==
  [config |-> c, llm |-> l, tools |-> t, strategy |-> st]

\* faulty variant: an executor without tools is refused
build_requires_tools(b) ==
  IF b.config = None
  THEN Err(RuntimeError("ConfigError", <<"Missing agent config">>))
  ELSE IF b.llm = None
  THEN Err(RuntimeError("ConfigError", <<"Missing LLM adapter">>))
  ELSE IF b.strategy = None
  THEN Err(RuntimeError("ConfigError", <<"Missing execution strategy">>))
  ELSE IF b.tools = {}
  THEN Err(RuntimeError("ConfigError", <<"Missing tools">>))
  ELSE Ok(AgentExecutor_new(b.config.value, b.llm.value, b.tools, b.strategy.value))

\* AgentExecutorBuilder::build: the three ok_or_else(..)? in their order
build(b) ==
  IF b.config = None
  THEN Err(RuntimeError("ConfigError", <<"Missing agent config">>))
  ELSE IF b.llm = None
  THEN Err(RuntimeError("ConfigError", <<"Missing LLM adapter">>))
  ELSE IF b.strategy = None
  THEN Err(RuntimeError("ConfigError", <<"Missing execution strategy">>))
  ELSE Ok(AgentExecutor_new(b.config.value, b.llm.value, b.tools, b.strategy.value))

LLMHandles == { "anthropic" }

Strategies == { "react" }

BuilderInit ==
  /\ config = TokenConfig
  /\ input \in Inputs
  /\ pc = "builder"
  /\ context = NoContext
  /\ now = 0
  /\ llm_calls = <<>>
  /\ llm_returns = <<>>
  /\ tool_execs = <<>>
  /\ strategy_return = None
  /\ result = None
  /\ results_built = 0
  /\ backend = [base_dir |-> Some(SandboxRoot), read_only |-> FALSE]
  /\ fs = InitialFs
  /\ fs_ret = None
  /\ storage = InitialStorage
  /\ history = "none"
  /\ other = None
  /\ builder = Some(AgentExecutorBuilder_new)
  /\ built = None
  /\ fetched = None
  /\ tool_timeout = None

\* one builder method: it takes the builder and returns the next one
BuilderStep(next) ==
  /\ pc = "builder"
  /\ builder # None
  /\ builder' = Some(next)
  /\ UNCHANGED << run, backend, fs, fs_ret, storage, history, other, built,
                  fetched,
                  tool_timeout >>

BuilderConfig(c) == BuilderStep(builder_config(builder.value, c))

BuilderLlm(l) == BuilderStep(builder_llm(builder.value, l))

BuilderTool(name) == BuilderStep(builder_tool(builder.value, name))

BuilderTools(names) == BuilderStep(builder_tools(builder.value, names))

BuilderStrategy(st) == BuilderStep(builder_strategy(builder.value, st))

\* build(self): the builder is consumed; built keeps it with the value returned
BuilderBuild ==
  /\ pc = "builder"
  /\ builder # None
  /\ built' = Some([from |-> builder.value, ret |-> build(builder.value)])
  /\ builder' = None
  /\ UNCHANGED << run, backend, fs, fs_ret, storage, history, other, fetched,
                  tool_timeout >>

BuilderNext ==
  \/ \E c \in Configs : BuilderConfig(c)
  \/ \E l \in LLMHandles : BuilderLlm(l)
  \/ \E name \in ToolNames : BuilderTool(name)
  \/ \E names \in SUBSET ToolNames : BuilderTools(names)
  \/ \E st \in Strategies : BuilderStrategy(st)
  \/ BuilderBuild

BuilderSpec == BuilderInit /\ [][BuilderNext]_vars


\* ------------------------------------------------ two runs on one executor
\* Two calls of execute(&self, input) on one executor, each with its own
\* input.  The executor's config, LLM handle and registry are behind &self;
\* the context, the strategy's return value and the result are locals of
\* each call.  The variables of the run hold the call that is taking steps,
\* `other` holds the locals of the call that is not.
PairInputs == Inputs \cup { <<"What is 3+3?">> }

PairConfigs ==
  { c \in Configs : /\ c.max_iterations = 2
                    /\ c.system_prompt # <<>>
                    /\ c.timeout \in { <<"2", "s">>, <<"5", "0", "0", "m", "s">>,
                                        <<"x", "s">> } }

PairResponses ==
  { r \in ModelResponses :
      r.content \in { <<"ANSWER:", " ", "42">>,
                      <<"TOOL:", " ", "calculator", "(", "2", "+", "2", ")">>,
                      <<"TOOL:", " ", "custom", "(", "{", "x", ")">> } }

\* the locals of the call that is taking steps
CurrentRun ==
  [ input |-> input, pc |-> pc, context |-> context, llm_calls |-> llm_calls,
    llm_returns |-> llm_returns, tool_execs |-> tool_execs,
    strategy_return |-> strategy_return, result |-> result,
    results_built |-> results_built ]

IdleRun(text) ==
  [ input |-> text, pc |-> "idle", context |-> NoContext, llm_calls |-> <<>>,
    llm_returns |-> <<>>, tool_execs |-> <<>>, strategy_return |-> None,
    result |-> None, results_built |-> 0 ]

PairInit ==
  /\ config \in PairConfigs
  /\ input \in PairInputs
  /\ pc = "idle"
  /\ context = NoContext
  /\ now = 0
  /\ llm_calls = <<>>
  /\ llm_returns = <<>>
  /\ tool_execs = <<>>
  /\ strategy_return = None
  /\ result = None
  /\ results_built = 0
  /\ backend = [base_dir |-> Some(SandboxRoot), read_only |-> FALSE]
  /\ fs = InitialFs
  /\ fs_ret = None
  /\ storage = InitialStorage
  /\ history = "none"
  /\ other \in { Some(IdleRun(text)) : text \in PairInputs \ {input} }
  /\ builder = None
  /\ built = None
  /\ fetched = None
  /\ tool_timeout = None

\* faulty variant: the context is a field of the executor, not a local
Switch_shared_context ==
  /\ other # None
  /\ other' = Some(CurrentRun)
  /\ input' = other.value.input
  /\ pc' = other.value.pc
  /\ llm_calls' = other.value.llm_calls
  /\ llm_returns' = other.value.llm_returns
  /\ tool_execs' = other.value.tool_execs
  /\ strategy_return' = other.value.strategy_return
  /\ result' = other.value.result
  /\ results_built' = other.value.results_built
  /\ UNCHANGED << context, config, now, backend, fs, fs_ret, storage, history,
                  builder, built, fetched,
                  tool_timeout >>

\* the other call of execute takes the next steps
Switch ==
  /\ other # None
  /\ other' = Some(CurrentRun)
  /\ input' = other.value.input
  /\ pc' = other.value.pc
  /\ context' = other.value.context
  /\ llm_calls' = other.value.llm_calls
  /\ llm_returns' = other.value.llm_returns
  /\ tool_execs' = other.value.tool_execs
  /\ strategy_return' = other.value.strategy_return
  /\ result' = other.value.result
  /\ results_built' = other.value.results_built
  /\ UNCHANGED << config, now, backend, fs, fs_ret, storage, history,
                  builder, built, fetched,
                  tool_timeout >>

PairNext ==
  \/ ExecuteConfigError
  \/ ExecuteBegin
  \/ GuardMaxIterations
  \/ GuardTimeout
  \/ CallLLM
  \/ LLMFail
  \/ \E response \in PairResponses : LLMRespond(response.content, response.usage, 0)
  \/ ToolFail
  \/ ToolReturn
  \/ Switch

PairSpec == PairInit /\ [][PairNext]_vars


\* ---------------------------------------------------- run history records
\* The run command with any result execute may hand it: every runtime
\* StopReason, the error with and without a text.
MaxRuns == 2

RunIds == { <<"uuid-", ToString(i)>> : i \in 1..MaxRuns }

RuntimeStopReasons ==
  { StopReason("Completed", <<>>),
    StopReason("MaxIterations", <<>>),
    StopReason("Timeout", <<>>),
    StopReason("UserStop", <<>>),
    StopReason("Error", <<>>),
    StopReason("Error", <<"Tool error: ", "Execution failed: ", "boom">>) }

HistoryResults ==
  { [ExecutionResult_success(id, <<"4">>, 1, <<>>, U32FromNat(150), 1050, 0,
        << <<"ANSWER:", " ", "4">> >>)
       EXCEPT !.stop_reason = reason, !.success = (reason.kind = "Completed")] :
      id \in RunIds, reason \in RuntimeStopReasons }

HistoryInit ==
  /\ config = TokenConfig
  /\ input \in Inputs
  /\ pc = "history"
  /\ context = NoContext
  /\ now = 0
  /\ llm_calls = <<>>
  /\ llm_returns = <<>>
  /\ tool_execs = <<>>
  /\ strategy_return = None
  /\ result = None
  /\ results_built = 0
  /\ backend = [base_dir |-> Some(SandboxRoot), read_only |-> FALSE]
  /\ fs = InitialFs
  /\ fs_ret = None
  /\ storage = InitialStorage
  /\ history = "none"
  /\ other = None
  /\ builder = None
  /\ built = None
  /\ fetched = None
  /\ tool_timeout = None

\* run command: executor.execute(&input) has returned r, with a fresh id
HistoryRun(r) ==
  /\ pc = "history" \/ (pc = "done" /\ history # "none")
  /\ \A i \in 1..Len(storage.runs) : storage.runs[i].id # r.id
  /\ result' = Ok(r)
  /\ pc' = "done"
  /\ history' = "none"
  /\ UNCHANGED << config, input, context, now, llm_calls, llm_returns, tool_execs,
                  strategy_return, results_built, backend, fs, fs_ret, storage,
                  other, builder, built, fetched,
                  tool_timeout >>

\* storage.get_run(id)
HistoryGet(id) ==
  /\ pc = "done"
  /\ history # "none"
  /\ fetched' = get_run(storage, id)
  /\ UNCHANGED << run, backend, fs, fs_ret, storage, history, other, builder,
                  built, tool_timeout >>

HistoryNext ==
  \/ \E r \in HistoryResults : HistoryRun(r)
  \/ SaveRunHistory
  \/ SaveRunHistoryFails
  \/ \E id \in RunIds \cup {EarlierResult.id} : HistoryGet(id)

HistorySpec == HistoryInit /\ [][HistoryNext]_vars


\* ------------------------------------------- one timeout text, two parsers
\* A run whose execution timeout and whose tool timeout are the same text:
\* the tool factory parses it when it builds the tool, the executor when
\* execute is called.
RECURSIVE NatDigits(_)
NatDigits(n) ==
  IF n < 10 THEN <<Digits[n + 1]>>
  ELSE NatDigits(n \div 10) \o <<Digits[(n % 10) + 1]>>

TimeoutTexts ==
  { NatDigits(n) \o <<"m", "s">> : n \in {0, 1, 500, 999, 1000, 1500, 1999, 2000} }
  \cup { NatDigits(n) \o <<"s">> : n \in {0, 1, 2} }
  \cup { NatDigits(n) : n \in {1, 2} }
  \cup { <<"x", "m", "s">> }

TimeoutConfigs ==
  [ timeout : TimeoutTexts,
    max_iterations : {1},
    system_prompt : {<<>>},
    model : {"claude-3-5-sonnet"} ]

TimeoutInit ==
  /\ config \in TimeoutConfigs
  /\ input \in Inputs
  /\ pc = "idle"
  /\ context = NoContext
  /\ now = 0
  /\ llm_calls = <<>>
  /\ llm_returns = <<>>
  /\ tool_execs = <<>>
  /\ strategy_return = None
  /\ result = None
  /\ results_built = 0
  /\ backend = [base_dir |-> Some(SandboxRoot), read_only |-> FALSE]
  /\ fs = InitialFs
  /\ fs_ret = None
  /\ storage = InitialStorage
  /\ history = "none"
  /\ other = None
  /\ builder = None
  /\ built = None
  /\ fetched = None
  /\ tool_timeout = None

\* the factory builds the tool before the executor is used
FactoryParseTimeout ==
  /\ pc = "idle"
  /\ tool_timeout = None
  /\ tool_timeout' = Some(ToolFactory_parse_timeout(config.timeout))
  /\ UNCHANGED << run, backend, fs, fs_ret, storage, history, other, builder,
                  built, fetched >>

TimeoutNext ==
  \/ FactoryParseTimeout
  \/ ExecuteConfigError
  \/ ExecuteBegin
  \/ GuardMaxIterations
  \/ GuardTimeout
  \/ CallLLM
  \/ LLMFail
  \/ \E response \in PairResponses, d \in Latencies :
       LLMRespond(response.content, response.usage, d)
  \/ ToolFail
  \/ ToolReturn

TimeoutSpec == TimeoutInit /\ [][TimeoutNext]_vars


\* ------------------------------------------------------ shared vocabulary
HasContext == pc \notin {"idle", "failed"}

Finished == pc = "done"

StrategyFailedWith(kind) ==
  /\ strategy_return.kind = "Err"
  /\ strategy_return.error.kind = kind

BothMarkers(text) == Contains(text, "TOOL:") /\ Contains(text, "ANSWER:")

\* every model turn so far was a tool call whose tool returned an output
\* with success = true
EveryTurnToolCall ==
  /\ Len(context.tool_calls) = Len(context.thoughts)
  /\ \A i \in 1..Len(context.tool_calls) : context.tool_calls[i].success

\* the strategy ended in the step that handled the last model output
EndedOnLastTurn ==
  \/ pc = "panicked"
  \/ /\ pc = "done"
     /\ \/ strategy_return.kind = "Ok"
        \/ StrategyFailedWith("ToolNotFound")
        \/ StrategyFailedWith("InvalidToolCall")
        \/ StrategyFailedWith("ToolError")

\* ------------------------------------------------------------------ C1
\* C1 (as claimed): a run in which every model turn is a resolving,
\* successful tool call and that stops for the iteration bound has made
\* exactly max_iterations model calls and its result carries the stop
\* reason MaxIterations.
C1_MaxIterationsStopReason ==
  (/\ Finished
   /\ StrategyFailedWith("MaxIterationsReached")
   /\ EveryTurnToolCall)
  => /\ Len(llm_calls) = config.max_iterations
     /\ result.value.stop_reason.kind = "MaxIterations"

\* ------------------------------------------------------------------ C2
\* C2 (as claimed): when a call has run past the timeout and the strategy
\* stops for it at the next guard, no model call was issued after the
\* deadline and the result carries the stop reason Timeout.
C2_TimeoutStopReason ==
  (/\ Finished
   /\ StrategyFailedWith("Timeout")
   /\ Len(llm_calls) >= 1)
  => /\ \A i \in 1..Len(llm_calls) :
          llm_calls[i].at - context.started_at < context.timeout
     /\ result.value.stop_reason.kind = "Timeout"

\* ------------------------------------------------------------------ C3
\* C3 (as claimed): execute never returns an error to its caller.
C3_NeverReturnsErr == result.kind # "Err"

\* C3 (amended): execute returns an error only for the ConfigError of a
\* malformed timeout, before a context exists and before any call; every
\* error the strategy returns ends in Ok(ExecutionResult) with success =
\* false and the stop reason Error carrying the error's display text.
C3_ErrorsBecomeResults ==
  /\ result.kind = "Err" =>
       /\ result.error.kind = "ConfigError"
       /\ context = NoContext
       /\ llm_calls = <<>> /\ tool_execs = <<>>
       /\ strategy_return = None
  /\ strategy_return.kind = "Err" =>
       /\ Finished
       /\ result.kind = "Ok"
       /\ ~result.value.success
       /\ result.value.stop_reason.kind = "Error"
       /\ result.value.stop_reason.message # <<>>
       /\ result.value.stop_reason.message[1] =
            (CASE StrategyFailedWith("LLMError") -> "LLM error: "
               [] StrategyFailedWith("ToolError") -> "Tool error: "
               [] StrategyFailedWith("ToolNotFound") -> "Tool not found: "
               [] StrategyFailedWith("InvalidToolCall") -> "Invalid tool call: "
               [] StrategyFailedWith("MaxIterationsReached") -> "Max iterations reached: "
               [] StrategyFailedWith("Timeout") -> "Execution timeout after "
               [] OTHER -> "")
       /\ SubSeq(result.value.stop_reason.message, 2,
                 1 + Len(strategy_return.error.arg)) = strategy_return.error.arg

C3_Witness ==
  /\ Finished
  /\ StrategyFailedWith("LLMError")
  /\ Len(context.thoughts) = 1
  /\ result.value.stop_reason.message = <<"LLM error: ", "Rate limited: ", "None">>

\* ------------------------------------------------------------------ C4
\* C4 (as claimed): every run that has ended has built exactly one
\* ExecutionResult, and when the strategy failed that result has success =
\* false and the context's iteration, tool calls, thoughts, tokens and cost.
C4_OneResultPerRun ==
  /\ (pc \in {"done", "panicked"}) => results_built = 1
  /\ (Finished /\ strategy_return.kind = "Err") =>
       /\ ~result.value.success
       /\ result.value.iterations = context.iteration
       /\ result.value.tool_calls = context.tool_calls
       /\ result.value.thoughts = context.thoughts
       /\ result.value.total_cost = context.total_cost
       /\ U32ToNat(result.value.total_tokens) =
            U32ToNat(context.total_tokens.input_tokens)
            + U32ToNat(context.total_tokens.output_tokens)

\* ------------------------------------------------------------------ C5
\* C5: every finished run has a result with one stop reason out of
\* Completed, MaxIterations, Timeout, Error(message), UserStop, and its
\* success flag is true exactly when the stop reason is Completed.
C5_SuccessIffCompleted ==
  /\ Finished <=> result.kind = "Ok"
  /\ Finished =>
       /\ result.value.stop_reason.kind \in
            {"Completed", "MaxIterations", "Timeout", "Error", "UserStop"}
       /\ result.value.success <=> result.value.stop_reason.kind = "Completed"
       /\ result.value.success <=> strategy_return.kind = "Ok"

C5_Witness ==
  /\ Finished
  /\ ~result.value.success
  /\ result.value.stop_reason.kind = "Error"
  /\ StrategyFailedWith("ToolError")

\* ------------------------------------------------------------------ C6
\* C6 (as claimed): a run stopped for the iteration bound, a run stopped for
\* the timeout and a run stopped by an error carry three different stop
\* reasons: MaxIterations, Timeout and Error.
C6_DistinctStopReasons ==
  (Finished /\ strategy_return.kind = "Err") =>
    result.value.stop_reason.kind =
      (CASE StrategyFailedWith("MaxIterationsReached") -> "MaxIterations"
         [] StrategyFailedWith("Timeout") -> "Timeout"
         [] OTHER -> "Error")


\* ------------------------------------------------------------------ C7
\* C7 (as claimed): after a model output containing both "TOOL:" and
\* "ANSWER:" the tool has been invoked and the run did not end in the step
\* that handled that output.
C7_ToolMarkerAlwaysWins ==
  (/\ HasContext
   /\ context.thoughts # <<>>
   /\ BothMarkers(Last(context.thoughts)))
  => /\ Len(tool_execs) = Len(context.thoughts)
     /\ ~EndedOnLastTurn

\* C7 (amended): after a model output containing both markers from which
\* a tool call is extracted (a '(' follows "TOOL:" and the first ')' comes
\* after it) and whose tool name is registered, that tool has been invoked,
\* no answer is returned for that output, and the loop goes on to record
\* the tool call and reach the next guard unless execute returns an error.
C7_ExtractedToolWins ==
  (/\ HasContext
   /\ context.thoughts # <<>>
   /\ BothMarkers(Last(context.thoughts))
   /\ extract_tool_call(Last(context.thoughts)).kind = "Some"
   /\ extract_tool_call(Last(context.thoughts)).value.tool_name \in ToolNames)
  => /\ Len(tool_execs) = Len(context.thoughts)
     /\ Last(tool_execs).tool_name =
          extract_tool_call(Last(context.thoughts)).value.tool_name
     /\ strategy_return.kind # "Ok"
     /\ ~StrategyFailedWith("ToolNotFound")
     /\ ~StrategyFailedWith("InvalidToolCall")
     /\ (pc # "tool" /\ ~StrategyFailedWith("ToolError"))
          => Len(context.tool_calls) = Len(context.thoughts)

C7_Witness ==
  /\ pc = "guard"
  /\ context.thoughts # <<>>
  /\ BothMarkers(Last(context.thoughts))
  /\ Len(context.tool_calls) = Len(context.thoughts)
  /\ Last(context.tool_calls).tool_name = <<"calculator">>

\* ------------------------------------------------------------------ C8
\* C8: when the last model output names a tool that is not in the
\* registry, the run has ended with the stop reason Error("Tool not found:
\* <name>"); no tool was executed for it, no ToolCallRecord and no
\* observation were appended, and the output is the last thought, in the
\* context and in the result.
C8_UnknownTool ==
  (/\ HasContext
   /\ context.thoughts # <<>>
   /\ extract_tool_call(Last(context.thoughts)).kind = "Some"
   /\ extract_tool_call(Last(context.thoughts)).value.tool_name \notin ToolNames)
  => /\ Finished
     /\ StrategyFailedWith("ToolNotFound")
     /\ result.value.stop_reason =
          StopReason("Error", <<"Tool not found: ">>
            \o extract_tool_call(Last(context.thoughts)).value.tool_name)
     /\ ~result.value.success
     /\ Len(tool_execs) = Len(context.thoughts) - 1
     /\ Len(context.tool_calls) = Len(context.thoughts) - 1
     /\ result.value.tool_calls = context.tool_calls
     /\ Last(context.messages) = Message("assistant", Last(context.thoughts))
     /\ result.value.thoughts = context.thoughts

C8_Witness ==
  /\ Finished
  /\ StrategyFailedWith("ToolNotFound")
  /\ Len(context.thoughts) = 2
  /\ Len(context.tool_calls) = 1
  /\ Last(context.thoughts) = <<"TOOL:", " ", "foo", "(", "x", ")">>

\* ------------------------------------------------------------------ C9
\* The text after the first "ANSWER:", trimmed; the whole text trimmed when
\* there is no marker.
AnswerText(text) ==
  LET marks == {i \in 1..Len(text) : text[i] = "ANSWER:"}
      first == CHOOSE i \in marks : \A j \in marks : i <= j
  IN  IF marks = {} THEN Trim(text)
      ELSE Trim(SubSeq(text, first + 1, Len(text)))

\* C9: when the last model output has no "TOOL:" marker the run has ended
\* on that iteration with the stop reason Completed and the response is the
\* trimmed text after the first "ANSWER:" (the whole trimmed output without
\* the marker); an answer on the first turn gives iterations = 1 and no tool
\* calls.
C9_FinalAnswer ==
  (/\ HasContext
   /\ context.thoughts # <<>>
   /\ ~Contains(Last(context.thoughts), "TOOL:"))
  => /\ Finished
     /\ result.kind = "Ok"
     /\ result.value.success
     /\ result.value.stop_reason = StopReason("Completed", <<>>)
     /\ result.value.response = AnswerText(Last(context.thoughts))
     /\ result.value.iterations = Len(context.thoughts)
     /\ Last(context.thoughts) = <<"ANSWER:", " ", "42">>
          => result.value.response = <<"42">>
     /\ Len(context.thoughts) = 1
          => /\ result.value.iterations = 1
             /\ result.value.tool_calls = <<>>
             /\ tool_execs = <<>>

C9_Witness ==
  /\ Finished
  /\ context.thoughts = << <<"ANSWER:", " ", "42">> >>
  /\ result.value.response = <<"42">>
  /\ result.value.iterations = 1
  /\ result.value.stop_reason.kind = "Completed"

\* ------------------------------------------------------------------ C10
\* C10: a run of two model turns that ends with an answer is Completed
\* with iterations = 2 and exactly one ToolCallRecord, holding the name
\* and the input of the tool call of the first turn and the output and
\* success flag the tool returned; the observation carrying that output
\* follows the first assistant message in the transcript and is part of
\* the request of the second model call.  "TOOL: calculator(2+2)" gives
\* the output "2+2 = 4".
C10_ToolThenAnswer ==
  (/\ Finished
   /\ strategy_return.kind = "Ok"
   /\ Len(context.thoughts) = 2)
  => LET r == result.value
         call == extract_tool_call(context.thoughts[1]).value
         rec == r.tool_calls[1]
         seed == llm_calls[1].messages
         first == Message("assistant", context.thoughts[1])
         second == Message("assistant", context.thoughts[2])
         obs == Message("user", <<"Tool Result from ">> \o call.tool_name
                                \o <<": ">> \o rec.output.value)
     IN  /\ r.stop_reason.kind = "Completed"
         /\ r.iterations = 2
         /\ Len(llm_calls) = 2
         /\ Len(r.tool_calls) = 1
         /\ Len(tool_execs) = 1
         /\ rec.tool_name = call.tool_name
         /\ rec.input = tool_execs[1].input
         /\ rec.output.kind = "Some"
         /\ context.messages = seed \o <<first, obs, second>>
         /\ llm_calls[2].messages = seed \o <<first, obs>>
         /\ (call.tool_name = <<"calculator">> /\ call.argument = <<"2", "+", "2">>)
              => /\ rec.input = JsonObject(<<JsonField("expression", <<"2", "+", "2">>)>>)
                 /\ rec.output.value = <<"2", "+", "2", " = ", "4">>
                 /\ rec.success

C10_Witness ==
  /\ Finished
  /\ context.thoughts = << <<"TOOL:", " ", "calculator", "(", "2", "+", "2", ")">>,
                           <<"ANSWER:", " ", "4">> >>
  /\ result.value.response = <<"4">>
  /\ Len(result.value.tool_calls) = 1
  /\ result.value.tool_calls[1].output = Some(<<"2", "+", "2", " = ", "4">>)

\* ------------------------------------------------------------------ C11
RECURSIVE SumSeq(_)
SumSeq(s) == IF s = <<>> THEN 0 ELSE s[1] + SumSeq(Tail(s))

\* the usages of the model calls that returned a response, in call order
UsagesReturned ==
  LET ok == SelectSeq(llm_returns, LAMBDA r : r.kind = "Ok")
  IN  [i \in 1..Len(ok) |-> ok[i].value.usage]

\* C11 (as claimed): every step in which a model call returns, with a
\* response or with an error, adds to the token and to the cost accumulator
\* of the context.
C11_EveryCallAccounted ==
  [][(HasContext /\ Len(llm_returns') = Len(llm_returns) + 1)
       => /\ context'.total_tokens # context.total_tokens
          /\ context'.total_cost > context.total_cost]_vars

\* C11 (amended): the accumulators hold the usage and the estimated cost of
\* exactly the model calls that returned a response, whatever the run's
\* outcome; a model call that failed adds nothing.
C11_ResponsesAccounted ==
  HasContext =>
    LET usages == UsagesReturned
    IN  /\ U32ToNat(context.total_tokens.input_tokens) =
             SumSeq([i \in 1..Len(usages) |-> U32ToNat(usages[i].input_tokens)])
        /\ U32ToNat(context.total_tokens.output_tokens) =
             SumSeq([i \in 1..Len(usages) |-> U32ToNat(usages[i].output_tokens)])
        /\ context.total_cost =
             SumSeq([i \in 1..Len(usages) |-> estimate_cost(usages[i])])
        /\ Len(usages) = Len(context.thoughts)

C11_Witness ==
  /\ Finished
  /\ StrategyFailedWith("LLMError")
  /\ Len(llm_returns) = 2
  /\ Len(UsagesReturned) = 1
  /\ context.total_cost = 2100
  /\ U32ToNat(result.value.total_tokens) = 300

\* ------------------------------------------------------------------ C12
U32LessEq(a, b) == a.hi < b.hi \/ (a.hi = b.hi /\ a.lo <= b.lo)

\* the exact sum of the recorded input and output tokens, as limbs whose
\* high limb is not reduced
RecordedTokenSum ==
  LET usages == UsagesReturned
      lo == SumSeq([i \in 1..Len(usages) |->
                      usages[i].input_tokens.lo + usages[i].output_tokens.lo])
      hi == SumSeq([i \in 1..Len(usages) |->
                      usages[i].input_tokens.hi + usages[i].output_tokens.hi])
  IN  U32(hi + (lo \div Limb), lo % Limb)

\* C12 (as claimed): no add_tokens lowers the input or the output
\* accumulator, and every value total_tokens() returns is the sum of the
\* input and output tokens of all usages recorded so far.
C12_TokensMonotoneAndSummed ==
  [][(pc = "tokens" /\ pc' = "tokens") =>
       /\ U32LessEq(context.total_tokens.input_tokens,
                    context'.total_tokens.input_tokens)
       /\ U32LessEq(context.total_tokens.output_tokens,
                    context'.total_tokens.output_tokens)
       /\ result' # result => result'.value = RecordedTokenSum]_vars

\* ------------------------------------------------------------------ C13
IsPrefix(s, t) == Len(s) <= Len(t) /\ SubSeq(t, 1, Len(s)) = s

\* C13: in every step of a run the messages, the tool calls and the
\* thoughts of the context before the step are prefixes of those after it.
C13_AppendOnly ==
  [][HasContext =>
       /\ IsPrefix(context.messages, context'.messages)
       /\ IsPrefix(context.tool_calls, context'.tool_calls)
       /\ IsPrefix(context.thoughts, context'.thoughts)]_vars

C13_Witness ==
  /\ Finished
  /\ Len(context.messages) = 2 * Len(context.thoughts) + 1
  /\ Len(context.thoughts) = 2
  /\ Len(context.tool_calls) = 1
  /\ context.messages[1].role = "system"

\* ------------------------------------------------------------------ C14
\* C14: in every state of a run iteration <= max_iterations, every model
\* call was issued right after the increment that gave it its iteration
\* number, and so the model calls of a run number at most max_iterations.
C14_IterationBound ==
  HasContext =>
    /\ context.iteration <= context.max_iterations
    /\ Len(llm_calls) = context.iteration
    /\ Len(llm_calls) <= config.max_iterations
    /\ context.max_iterations = config.max_iterations

C14_Witness ==
  /\ pc = "llm"
  /\ config.max_iterations >= 2
  /\ context.iteration = config.max_iterations
  /\ Len(llm_calls) = config.max_iterations

\* ------------------------------------------------------------------ C15
\* C15 (as claimed): between a passed guard and the end of the run (a model
\* call or a tool call is awaited) the time elapsed since the context was created is below the timeout.
C15_ElapsedBelowTimeout ==
  (pc \in {"llm", "tool"}) => elapsed(context, now) < context.timeout

\* C15 (amended): the elapsed time is below the timeout at the moment the
\* guards pass, that is, when each model call is issued; a call that is
\* awaited is not interrupted, so the elapsed time may pass the timeout
\* until the next guard ends the run.
C15_InTimeWhenIssued ==
  HasContext =>
    /\ \A i \in 1..Len(llm_calls) :
         llm_calls[i].at - context.started_at < context.timeout
    /\ (pc = "llm") => elapsed(context, now) < context.timeout

C15_Witness ==
  /\ pc = "llm"
  /\ Len(llm_calls) = 2
  /\ context.timeout = 2000
  /\ elapsed(context, now) = SlowCall
  /\ llm_calls[2].at = now

\* ------------------------------------------------------------------ C16
\* where a path leads when every ".." cancels the component before it
RECURSIVE Normalize(_, _)
Normalize(comps, acc) ==
  IF comps = <<>> THEN acc
  ELSE IF Head(comps) = ".."
       THEN Normalize(Tail(comps), IF acc = <<>> THEN acc ELSE Front(acc))
       ELSE Normalize(Tail(comps), Append(acc, Head(comps)))

ResolvesOutside(path) ==
  ~StartsWith(Normalize(IF path.abs THEN path.comps ELSE SandboxRoot \o path.comps,
                        <<>>),
              SandboxRoot)

\* the directories and files that are not under the sandbox root
OutsidePart(f) ==
  [ dirs |-> { d \in f.dirs : ~StartsWith(d, SandboxRoot) },
    files |-> [q \in { r \in DOMAIN f.files : ~StartsWith(r, SandboxRoot) }
                 |-> f.files[q]] ]

\* C16 (as claimed): with a sandbox root, an operation on a path that
\* leads outside the root returns PermissionDenied and leaves everything
\* outside the root as it was.
C16_SandboxHolds ==
  (/\ pc = "fs"
   /\ fs_ret.kind = "Some"
   /\ backend.base_dir.kind = "Some"
   /\ ResolvesOutside(fs_ret.path))
  => /\ fs_ret.ret.kind = "Err"
     /\ fs_ret.ret.error.kind = "PermissionDenied"
     /\ OutsidePart(fs) = OutsidePart(fs_ret.before)

\* ------------------------------------------------------------------ C17
\* C17: in read-only mode write and delete return the read-only
\* PermissionDenied for every path, also for one outside the sandbox, and
\* no operation changes the filesystem; read, list, exists and metadata
\* return what the same backend without the flag returns.
C17_ReadOnlyRejects ==
  (pc = "fs" /\ fs_ret.kind = "Some" /\ backend.read_only)
  => LET rw == [backend EXCEPT !.read_only = FALSE]
         path == fs_ret.path
     IN  /\ fs = fs_ret.before
         /\ fs = InitialFs
         /\ fs_ret.op = "write" =>
              fs_ret.ret = ToolError("PermissionDenied",
                             "Write operation not allowed on read-only filesystem")
         /\ fs_ret.op = "delete" =>
              fs_ret.ret = ToolError("PermissionDenied",
                             "Delete operation not allowed on read-only filesystem")
         /\ fs_ret.op = "read" => fs_ret.ret = local_read(rw, fs, path).ret
         /\ fs_ret.op = "list" => fs_ret.ret = local_list(rw, fs, path).ret
         /\ fs_ret.op = "exists" => fs_ret.ret = local_exists(rw, fs, path).ret
         /\ fs_ret.op = "metadata" => fs_ret.ret = local_metadata(rw, fs, path).ret
         /\ (fs_ret.op = "read" /\ path = Path(FALSE, <<"f">>))
              => fs_ret.ret = Ok("data")

C17_Witness ==
  /\ pc = "fs"
  /\ backend.read_only
  /\ fs_ret.kind = "Some"
  /\ fs_ret.op = "write"
  /\ fs_ret.path = Path(FALSE, <<"..", "etc", "passwd">>)
  /\ fs_ret.ret.error.msg = "Write operation not allowed on read-only filesystem"

\* ------------------------------------------------------------------ C18
\* C18: once a result is persisted, reading the run back by its id gives
\* as many tool calls and thoughts as the result holds, in the same order,
\* and the entry at place i (counted from 0) has sequence_number = i and
\* the name, output and content of the i-th in-memory entry; the rows of
\* the earlier run are not among them.
C18_PersistedOrder ==
  history = "saved" =>
    LET r == result.value
        back == get_run(storage, r.id)
        calls == back.value.tool_calls
        thoughts == back.value.thoughts
    IN  /\ back.kind = "Some"
        /\ Len(calls) = Len(r.tool_calls)
        /\ Len(thoughts) = Len(r.thoughts)
        /\ \A i \in 0..(Len(calls) - 1) :
             /\ calls[i + 1].entry.sequence_number = i
             /\ calls[i + 1].run_id = r.id
             /\ calls[i + 1].entry.tool_name = r.tool_calls[i + 1].tool_name
             /\ calls[i + 1].entry.output = r.tool_calls[i + 1].output
             /\ calls[i + 1].entry.timestamp = r.tool_calls[i + 1].timestamp
        /\ \A i \in 0..(Len(thoughts) - 1) :
             /\ thoughts[i + 1].entry.sequence_number = i
             /\ thoughts[i + 1].run_id = r.id
             /\ thoughts[i + 1].entry.content = r.thoughts[i + 1]

C18_Witness ==
  /\ history = "saved"
  /\ Len(result.value.tool_calls) = 2
  /\ Len(result.value.thoughts) = 2
  /\ result.value.tool_calls[1].tool_name # result.value.tool_calls[2].tool_name
  /\ Len(storage.tool_calls) = 3
  /\ Len(get_run(storage, result.value.id).value.tool_calls) = 2

\* ------------------------------------------------------------------ C19
\* C19: once a model call has failed it is the last call of the run: no
\* model call and no tool call follows it, and the run has ended with the
\* stop reason Error carrying the display text of the LLM error.
C19_NoRetryAfterLLMError ==
  /\ \A i \in 1..(Len(llm_returns) - 1) : llm_returns[i].kind = "Ok"
  /\ (llm_returns # <<>> /\ Last(llm_returns).kind = "Err") =>
       /\ Finished
       /\ Len(llm_calls) = Len(llm_returns)
       /\ \A i \in 1..Len(tool_execs) : tool_execs[i].returned.kind = "Some"
       /\ Len(tool_execs) = Len(llm_calls) - 1
       /\ StrategyFailedWith("LLMError")
       /\ ~result.value.success
       /\ result.value.stop_reason =
            StopReason("Error", <<"LLM error: ">> \o Last(llm_returns).error)
       /\ result.value.execution_time_ms = elapsed(context, now)

C19_Witness ==
  /\ Finished
  /\ Len(llm_returns) = 2
  /\ llm_returns[2] = Err(<<"API error: ", "500", " - ", "overloaded">>)
  /\ Len(llm_calls) = 2
  /\ Len(context.tool_calls) = 1

\* ------------------------------------------------------------------ C20
\* C20: once a tool's execute has returned an error the run has ended with
\* the stop reason Error carrying the tool error's text; no ToolCallRecord
\* and no observation were appended for that call (the transcript ends with
\* the assistant message that asked for the tool) and no model call follows.
C20_ToolErrorEndsRun ==
  /\ \A i \in 1..(Len(tool_execs) - 1) :
       tool_execs[i].returned.kind = "Some" /\ tool_execs[i].returned.value.kind = "Ok"
  /\ (/\ tool_execs # <<>>
      /\ Last(tool_execs).returned.kind = "Some"
      /\ Last(tool_execs).returned.value.kind = "Err") =>
       /\ Finished
       /\ StrategyFailedWith("ToolError")
       /\ ~result.value.success
       /\ result.value.stop_reason =
            StopReason("Error", <<"Tool error: ">>
                                  \o Last(tool_execs).returned.value.content)
       /\ Last(context.messages) = Message("assistant", Last(context.thoughts))
       /\ Len(context.tool_calls) = Len(tool_execs) - 1
       /\ result.value.tool_calls = context.tool_calls
       /\ Len(llm_calls) = Len(tool_execs)
       /\ Len(llm_returns) = Len(tool_execs)

C20_Witness ==
  /\ Finished
  /\ Len(tool_execs) = 2
  /\ tool_execs[2].tool_name = <<"calculator">>
  /\ tool_execs[2].returned.value.kind = "Err"
  /\ Len(context.tool_calls) = 1
  /\ Len(context.messages) = Len(llm_calls[1].messages) + 3

\* ------------------------------------------------------------------ C21
\* the transcript after n model outputs of which the first Len(answered)
\* were followed by a tool output
RECURSIVE TranscriptOf(_, _, _)
TranscriptOf(outputs, answered, n) ==
  IF n = 0 THEN <<>>
  ELSE TranscriptOf(outputs, answered, n - 1)
       \o << Message("assistant", outputs[n]) >>
       \o (IF n <= Len(answered)
           THEN << Message("user", <<"Tool Result from ">> \o answered[n].tool_name
                                   \o <<": ">> \o answered[n].returned.value.content) >>
           ELSE <<>>)

\* the state of the call r of execute is the one its own input, its own model
\* responses and its own tool outputs give
OwnState(r) ==
  /\ r.pc = "failed" => r.result = parse_timeout(config.timeout)
  /\ r.pc \in {"guard", "llm", "tool", "done"} =>
       LET ok == SelectSeq(r.llm_returns, LAMBDA x : x.kind = "Ok")
           outputs == [i \in 1..Len(ok) |-> ok[i].value.content]
           answered == SelectSeq(r.tool_execs,
                         LAMBDA e : e.returned.kind = "Some" /\ e.returned.value.kind = "Ok")
           seed == IF config.system_prompt # <<>>
                   THEN <<Message("system", config.system_prompt), Message("user", r.input)>>
                   ELSE <<Message("user", r.input)>>
           ctx == r.context
       IN  /\ ctx.messages = seed \o TranscriptOf(outputs, answered, Len(ok))
           /\ ctx.iteration = Len(r.llm_calls)
           /\ ctx.thoughts = outputs
           /\ U32ToNat(ctx.total_tokens.input_tokens) =
                SumSeq([i \in 1..Len(ok) |-> U32ToNat(ok[i].value.usage.input_tokens)])
           /\ U32ToNat(ctx.total_tokens.output_tokens) =
                SumSeq([i \in 1..Len(ok) |-> U32ToNat(ok[i].value.usage.output_tokens)])
           /\ ctx.total_cost =
                SumSeq([i \in 1..Len(ok) |-> estimate_cost(ok[i].value.usage)])
           /\ Len(ctx.tool_calls) = Len(answered)
           /\ \A i \in 1..Len(answered) :
                /\ ctx.tool_calls[i].tool_name = answered[i].tool_name
                /\ ctx.tool_calls[i].input = answered[i].input
                /\ ctx.tool_calls[i].output = Some(answered[i].returned.value.content)
                /\ ctx.tool_calls[i].success = answered[i].returned.value.success
           /\ \A k \in 1..Len(r.llm_calls) :
                /\ Len(r.llm_calls[k].messages) <= Len(ctx.messages)
                /\ r.llm_calls[k].messages =
                     SubSeq(ctx.messages, 1, Len(r.llm_calls[k].messages))
           /\ r.pc = "done" =>
                /\ r.result.kind = "Ok"
                /\ r.result =
                     Ok(BuildResult(ctx, r.strategy_return,
                          ctx.started_at + r.result.value.execution_time_ms))
                /\ r.strategy_return.kind = "Ok" =>
                     r.strategy_return.value = extract_answer(outputs[Len(outputs)])

\* C21: with two calls of execute interleaved on one executor, in every
\* state the transcript, iteration count, token and cost totals, tool-call
\* records, thoughts and result of each call are those its own input and
\* its own model and tool responses give; a step of one call leaves the
\* locals of the other as they were, and no step changes the config.
C21_RunsIndependent ==
  /\ [](OwnState(CurrentRun) /\ OwnState(other.value))
  /\ [][/\ config' = config
        /\ \/ other' = other
           \/ (other'.value = CurrentRun /\ CurrentRun' = other.value)]_vars

C21_Witness ==
  /\ pc = "done"
  /\ other.value.pc = "done"
  /\ strategy_return.kind = "Ok"
  /\ other.value.strategy_return.kind = "Err"
  /\ other.value.strategy_return.error.kind = "ToolError"
  /\ Len(context.tool_calls) = 1
  /\ Len(other.value.context.tool_calls) = 1
  /\ context.messages[2].content # other.value.context.messages[2].content

\* ------------------------------------------------------------------ C22
\* C22: build returns a ConfigError when the config, the LLM adapter or the
\* strategy was not supplied, naming the first one missing, and returns the
\* executor made of what was supplied when all three were, whatever the
\* tools.
C22_BuildChecksRequired ==
  built # None =>
    LET b == built.value.from
        ret == built.value.ret
        missing == b.config = None \/ b.llm = None \/ b.strategy = None
    IN  /\ missing => /\ ret.kind = "Err"
                      /\ ret.error.kind = "ConfigError"
        /\ b.config = None => ret.error.arg = <<"Missing agent config">>
        /\ (b.config # None /\ b.llm = None) =>
             ret.error.arg = <<"Missing LLM adapter">>
        /\ (b.config # None /\ b.llm # None /\ b.strategy = None) =>
             ret.error.arg = <<"Missing execution strategy">>
        /\ ~missing => /\ ret.kind = "Ok"
                       /\ ret.value.config = b.config.value
                       /\ ret.value.llm = b.llm.value
                       /\ ret.value.strategy = b.strategy.value
                       /\ ret.value.tools = b.tools

C22_Witness ==
  /\ built # None
  /\ built.value.from.tools = {}
  /\ built.value.ret.kind = "Ok"
  /\ built.value.ret.value.config.max_iterations = MaxIter

\* ------------------------------------------------------------------ C23
\* after the first "TOOL:" there is no '(' or no ')'
NoCallShape(text) ==
  LET rest == SubSeq(text, Find(text, "TOOL:") + 1, Len(text))
  IN  ~Contains(rest, "(") \/ ~Contains(rest, ")")

InvalidToolCallMessage ==
  <<"Invalid tool call: ", "Response contained neither tool call nor final answer">>

\* C23 (as claimed): no run ends with InvalidToolCall.
C23_InvalidToolCallUnreachable == ~StrategyFailedWith("InvalidToolCall")

\* C23 (amended): a run ends with InvalidToolCall exactly when the last
\* model output contains "TOOL:", does not contain "ANSWER:" and has no '('
\* or no ')' after the marker; no tool is executed for that output.
C23_InvalidToolCallExactly ==
  /\ StrategyFailedWith("InvalidToolCall") =>
       /\ Contains(Last(context.thoughts), "TOOL:")
       /\ ~Contains(Last(context.thoughts), "ANSWER:")
       /\ NoCallShape(Last(context.thoughts))
  /\ (/\ HasContext
      /\ context.thoughts # <<>>
      /\ Contains(Last(context.thoughts), "TOOL:")
      /\ ~Contains(Last(context.thoughts), "ANSWER:")
      /\ NoCallShape(Last(context.thoughts)))
     => /\ Finished
        /\ StrategyFailedWith("InvalidToolCall")
        /\ result.value.stop_reason = StopReason("Error", InvalidToolCallMessage)
        /\ Len(tool_execs) = Len(context.thoughts) - 1

C23_Witness ==
  /\ Finished
  /\ StrategyFailedWith("InvalidToolCall")
  /\ Last(context.thoughts) = <<"TOOL:", " ", "calculator">>
  /\ result.value.stop_reason.message = InvalidToolCallMessage

\* ------------------------------------------------------------------ C24
\* C24: from the top of the loop a model call is issued only when the
\* iteration count is below the bound and the elapsed time below the
\* timeout; with the bound reached the run stops for the bound, whether or
\* not the timeout has passed too, and for the timeout only otherwise.
C24_GuardOrder ==
  [][pc = "guard" =>
       LET bound == context.iteration >= context.max_iterations
           late == now - context.started_at >= context.timeout
       IN  /\ Len(llm_calls') > Len(llm_calls) => (~bound /\ ~late)
           /\ bound => /\ strategy_return'.kind = "Err"
                       /\ strategy_return'.error.kind = "MaxIterationsReached"
                       /\ llm_calls' = llm_calls
           /\ (~bound /\ late) => /\ strategy_return'.kind = "Err"
                                  /\ strategy_return'.error.kind = "Timeout"
                                  /\ llm_calls' = llm_calls]_vars

C24_Witness ==
  /\ Finished
  /\ StrategyFailedWith("MaxIterationsReached")
  /\ context.iteration = context.max_iterations
  /\ now - context.started_at >= context.timeout
  /\ context.timeout > 0

\* ------------------------------------------------------------------ C25
\* C25: the i-th tool execution is the call extracted from the i-th model
\* output, with the input built from its argument text: {"expression":
\* text} when the text does not start with '{', the parsed object when it
\* does and is JSON, {"input": text} when it does and is not JSON; and
\* every output with an extracted call to a registered tool has its tool
\* executed.
C25_ArgumentFallback ==
  HasContext =>
    /\ \A i \in 1..Len(tool_execs) :
         LET call == extract_tool_call(context.thoughts[i]).value
             arg == call.argument
         IN  /\ tool_execs[i].tool_name = call.tool_name
             /\ (arg = <<>> \/ arg[1] # "{") =>
                  tool_execs[i].input = JsonObject(<<JsonField("expression", arg)>>)
             /\ arg = <<"{", "x">> =>
                  tool_execs[i].input = JsonObject(<<JsonField("input", arg)>>)
             /\ arg = <<"{", "\"url\"", ":", " ", "\"u\"", "}">> =>
                  tool_execs[i].input = JsonObject(<<JsonField("url", <<"u">>)>>)
    /\ \A i \in 1..Len(context.thoughts) :
         (/\ extract_tool_call(context.thoughts[i]).kind = "Some"
          /\ extract_tool_call(context.thoughts[i]).value.tool_name \in ToolNames)
         => Len(tool_execs) >= i

C25_Witness ==
  /\ pc = "guard"
  /\ Len(tool_execs) = 1
  /\ tool_execs[1].input = JsonObject(<<JsonField("input", <<"{", "x">>)>>)
  /\ tool_execs[1].returned.value.kind = "Ok"
  /\ Len(context.tool_calls) = 1

\* ------------------------------------------------------------------ C26
AssistantMessages == SelectSeq(context.messages, LAMBDA m : m.role = "assistant")

\* C26: the thoughts, the assistant messages of the transcript and the
\* model calls that returned a response are equally many, and the i-th of
\* each carries the i-th output; this holds too when the output is a final
\* answer or names an unknown tool.
C26_EveryOutputRecorded ==
  HasContext =>
    LET returned == SelectSeq(llm_returns, LAMBDA r : r.kind = "Ok")
    IN  /\ Len(context.thoughts) = Len(AssistantMessages)
        /\ Len(context.thoughts) = Len(returned)
        /\ \A i \in 1..Len(returned) :
             /\ context.thoughts[i] = returned[i].value.content
             /\ AssistantMessages[i].content = returned[i].value.content

C26_Witness ==
  /\ Finished
  /\ StrategyFailedWith("ToolNotFound")
  /\ Len(context.thoughts) = 1
  /\ Len(AssistantMessages) = 1
  /\ result.value.thoughts = context.thoughts

\* ------------------------------------------------------------------ C27
\* C27: the step in which a tool returns an output appends one
\* ToolCallRecord with that output and its success flag, appends the
\* observation "Tool Result from <name>: <output>" to the transcript and
\* goes back to the guards without ending the run, also when success is
\* false.
C27_OutputAlwaysContinues ==
  [][(/\ pc = "tool"
      /\ Last(tool_execs').returned.kind = "Some"
      /\ Last(tool_execs').returned.value.kind = "Ok")
     => LET out == Last(tool_execs').returned.value
            call == Last(tool_execs)
        IN  /\ pc' = "guard"
            /\ strategy_return' = None
            /\ Len(context'.tool_calls) = Len(context.tool_calls) + 1
            /\ SubSeq(context'.tool_calls, 1, Len(context.tool_calls)) = context.tool_calls
            /\ Last(context'.tool_calls).tool_name = call.tool_name
            /\ Last(context'.tool_calls).input = call.input
            /\ Last(context'.tool_calls).output = Some(out.content)
            /\ Last(context'.tool_calls).success = out.success
            /\ context'.messages =
                 Append(context.messages,
                        Message("user", <<"Tool Result from ">> \o call.tool_name
                                        \o <<": ">> \o out.content))]_vars

C27_Witness ==
  /\ pc = "llm"
  /\ Len(llm_calls) = 2
  /\ Len(context.tool_calls) = 1
  /\ ~context.tool_calls[1].success
  /\ context.tool_calls[1].output = Some(<<"failed">>)
  /\ Last(context.messages).role = "user"

\* ------------------------------------------------------------------ C28
\* C28: whenever no call of a tool's execute is in flight, the tool_calls
\* of the context are as many as the calls of execute made in the run.
C28_RecordPerInvocation ==
  (HasContext /\ pc # "tool") => Len(context.tool_calls) = Len(tool_execs)

\* ------------------------------------------------------------------ C29
SeedMessages ==
  IF config.system_prompt # <<>>
  THEN <<Message("system", config.system_prompt), Message("user", input)>>
  ELSE <<Message("user", input)>>

\* the assistant message and the observation of the first n iterations
RECURSIVE TurnPairs(_)
TurnPairs(n) ==
  IF n = 0 THEN <<>>
  ELSE TurnPairs(n - 1) \o
       << Message("assistant", context.thoughts[n]),
          Message("user", <<"Tool Result from ">> \o context.tool_calls[n].tool_name
                          \o <<": ">> \o context.tool_calls[n].output.value) >>

\* C29: the request of the k-th model call holds the seed messages followed
\* by the assistant message and the observation of each of the k-1 earlier
\* iterations, in order, and is built when the iteration counter is k.
C29_RequestIsTranscript ==
  HasContext =>
    \A k \in 1..Len(llm_calls) :
      /\ llm_calls[k].messages = SeedMessages \o TurnPairs(k - 1)
      /\ llm_calls[k].iteration = k
      /\ llm_calls[k].model = config.model

C29_Witness ==
  /\ pc = "llm"
  /\ Len(llm_calls) = 2
  /\ Len(llm_calls[2].messages) = 4
  /\ llm_calls[2].messages[1].role = "system"
  /\ llm_calls[2].messages[4].content =
       <<"Tool Result from ", "calculator", ": ", "2", "+", "2", " = ", "4">>

\* ------------------------------------------------------------------ C30
\* C30: when the strategy is entered the context has iteration 0, no
\* tokens, no cost, no tool calls, no thoughts and the seed transcript: the
\* system message when the configured prompt is non-empty, then the user
\* input as the last message; the seed stays at the head of the transcript.
C30_SeededContext ==
  /\ (pc = "guard" /\ llm_calls = <<>>) =>
       /\ context.iteration = 0
       /\ context.total_tokens = TokenUsage(U32Zero, U32Zero)
       /\ context.total_cost = 0
       /\ context.tool_calls = <<>>
       /\ context.thoughts = <<>>
       /\ context.messages = SeedMessages
       /\ context.started_at = now
  /\ HasContext =>
       /\ SubSeq(context.messages, 1, Len(SeedMessages)) = SeedMessages
       /\ Len(SelectSeq(context.messages, LAMBDA m : m.role = "system")) =
            (IF config.system_prompt = <<>> THEN 0 ELSE 1)

C30_Witness ==
  /\ pc = "guard"
  /\ llm_calls = <<>>
  /\ config.system_prompt = <<>>
  /\ context.messages = <<Message("user", input)>>
  /\ context.iteration = 0

\* ------------------------------------------------------------------ C31
\* the digits n of a text of the form "<n>ms", "<n>s" or "<n>", else <<>>
TimeoutDigits(text) ==
  LET n == Len(text)
      body == IF n >= 2 /\ text[n - 1] = "m" /\ text[n] = "s"
              THEN SubSeq(text, 1, n - 2)
              ELSE IF n >= 1 /\ text[n] = "s" THEN SubSeq(text, 1, n - 1)
              ELSE text
  IN  IF AllDigits(body) THEN body ELSE <<>>

HasTimeoutForm(text) == TimeoutDigits(text) # <<>>

\* execute returned the ConfigError and nothing of a run exists
FailedBeforeRun ==
  /\ pc = "failed"
  /\ result.kind = "Err"
  /\ result.error.kind = "ConfigError"
  /\ context = NoContext
  /\ llm_calls = <<>>
  /\ tool_execs = <<>>
  /\ strategy_return = None

C32_StopReasonSurvives ==
  /\ \A r \in StoredStopReasons :
       StoredStopReason_from_str(StoredStopReason_to_string(r)) = Ok(r)
  /\ \A i \in 1..Len(storage.runs) :
       \E r \in StoredStopReasons :
         /\ storage.runs[i].stop_reason = StoredStopReason_to_string(r)
         /\ get_run(storage, storage.runs[i].id).value.stop_reason = r
  /\ history = "saved" =>
       LET reason == result.value.stop_reason
           back == get_run(storage, result.value.id)
       IN  /\ back.kind = "Some"
           /\ back.value.stop_reason = StoredStopReason(reason.kind)
           /\ back.value.error_message =
                (IF reason.kind = "Error" THEN Some(reason.message) ELSE None)
           /\ (fetched.kind = "Some" /\ fetched.value.id = result.value.id) =>
                fetched = back

C32_Witness ==
  /\ history = "saved"
  /\ result.value.stop_reason = StopReason("Timeout", <<>>)
  /\ fetched.kind = "Some"
  /\ fetched.value.id = result.value.id
  /\ fetched.value.stop_reason = StoredStopReason("Timeout")
  /\ fetched.value.error_message = None
  /\ Len(storage.runs) = 3
  /\ storage.runs[2].stop_reason = "error"
  /\ storage.runs[2].error_message = Some(<<>>)

\* ------------------------------------------------------------------ C33
\* C33: the step in which a model call returns ends in a tool dispatch, in
\* a final answer or in a typed RuntimeError, one of the three, whatever
\* the output; it never ends in a fault of the parser.
C33_StepNeverFaults ==
  [][(pc = "llm" /\ Len(llm_returns') = Len(llm_returns) + 1)
       => \/ /\ pc' = "tool"
             /\ strategy_return' = None
             /\ Len(tool_execs') = Len(tool_execs) + 1
          \/ /\ pc' = "done"
             /\ strategy_return'.kind \in {"Ok", "Err"}
             /\ tool_execs' = tool_execs]_vars

\* ------------------------------------------------------------------ C34
\* the n of a text "<n>ms", as digits; <<>> for any other text
MillisecondDigits(text) ==
  LET n == Len(text)
  IN  IF n >= 3 /\ text[n - 1] = "m" /\ text[n] = "s" /\ AllDigits(SubSeq(text, 1, n - 2))
      THEN SubSeq(text, 1, n - 2)
      ELSE <<>>

\* C34: with the timeout "<n>ms" the context's timeout is floor(n / 1000)
\* whole seconds; when n < 1000 the run makes no model call and ends at the
\* first guard with the timeout error and iterations = 0; the tool factory
\* reads the same text as n milliseconds.
C34_MillisecondsFloored ==
  LET digits == MillisecondDigits(config.timeout)
      n == DigitsValue(digits)
  IN  digits # <<>> =>
        /\ pc # "failed"
        /\ HasContext =>
             /\ context.timeout % 1000 = 0
             /\ context.timeout \div 1000 = n \div 1000
        /\ (HasContext /\ n < 1000) =>
             /\ context.timeout = 0
             /\ llm_calls = <<>>
             /\ tool_execs = <<>>
             /\ context.iteration = 0
             /\ pc \in {"guard", "done"}
             /\ pc = "done" =>
                  /\ StrategyFailedWith("Timeout")
                  /\ ~result.value.success
                  /\ result.value.iterations = 0
                  /\ result.value.stop_reason.message[1] = "Execution timeout after "
        /\ tool_timeout # None => tool_timeout = Some(Ok(n))

C34_Witness ==
  /\ config.timeout = <<"9", "9", "9", "m", "s">>
  /\ tool_timeout = Some(Ok(999))
  /\ Finished
  /\ StrategyFailedWith("Timeout")
  /\ context.timeout = 0
  /\ result.value.iterations = 0
  /\ llm_calls = <<>>

\* ------------------------------------------------------------------ C35
\* C35: the iteration counter is the number of model calls issued, whether
\* they returned a response or an error; it is the number of thoughts or
\* one more, and one more only while a model call is awaited or after one
\* has failed; the tool-call records are never more than the thoughts.
C35_CountersAgree ==
  HasContext =>
    /\ context.iteration = Len(llm_calls)
    /\ Len(context.thoughts) <= context.iteration
    /\ context.iteration <= Len(context.thoughts) + 1
    /\ Len(context.tool_calls) <= Len(context.thoughts)
    /\ context.iteration > Len(context.thoughts) =>
         \/ pc = "llm" /\ Len(llm_returns) < Len(llm_calls)
         \/ /\ Len(llm_returns) = Len(llm_calls)
            /\ llm_returns[Len(llm_returns)].kind = "Err"

C35_Witness ==
  /\ Finished
  /\ StrategyFailedWith("LLMError")
  /\ context.iteration = 2
  /\ Len(llm_calls) = 2
  /\ Len(context.thoughts) = 1
  /\ Len(context.tool_calls) = 1

\* ------------------------------------------------------------------ C36
\* the time since the context was created has reached the timeout
PastDeadline(at) == at - context.started_at >= context.timeout

\* C36: a model call that returns a final answer after the deadline ends
\* the run as Completed with that answer; a tool dispatched by a response
\* that came after the deadline is not cut short by the timeout; and when a
\* guard then stops the run, that tool has returned and its call is the
\* last record of the result.
C36_TimeoutKeepsOutcome ==
  [][/\ (/\ pc = "llm"
         /\ Len(llm_returns') = Len(llm_returns) + 1
         /\ llm_returns'[Len(llm_returns')].kind = "Ok"
         /\ PastDeadline(now')
         /\ ~Contains(llm_returns'[Len(llm_returns')].value.content, "TOOL:"))
        => /\ pc' = "done"
           /\ result'.value.success
           /\ result'.value.stop_reason = StopReason("Completed", <<>>)
           /\ result'.value.response =
                extract_answer(llm_returns'[Len(llm_returns')].value.content)
     /\ (/\ pc = "llm"
         /\ Len(llm_returns') = Len(llm_returns) + 1
         /\ llm_returns'[Len(llm_returns')].kind = "Ok"
         /\ PastDeadline(now')
         /\ strategy_return'.kind = "Err")
        => strategy_return'.error.kind # "Timeout"
     /\ (pc = "tool" /\ strategy_return'.kind = "Err")
        => strategy_return'.error.kind = "ToolError"
     /\ (/\ pc = "guard"
         /\ pc' = "done"
         /\ tool_execs # <<>>
         /\ Len(tool_execs) = Len(llm_calls)
         /\ PastDeadline(Last(tool_execs).tool_start))
        => /\ Last(tool_execs).returned.kind = "Some"
           /\ Last(tool_execs).returned.value.kind = "Ok"
           /\ Len(result'.value.tool_calls) = Len(tool_execs)
           /\ Last(result'.value.tool_calls).tool_name = Last(tool_execs).tool_name
           /\ Last(result'.value.tool_calls).output =
                Some(Last(tool_execs).returned.value.content)
           /\ Last(result'.value.tool_calls).timestamp = Last(tool_execs).tool_start]_vars

C36_Witness ==
  /\ Finished
  /\ StrategyFailedWith("Timeout")
  /\ Len(llm_calls) = 1
  /\ Len(tool_execs) = 1
  /\ PastDeadline(tool_execs[1].tool_start)
  /\ context.timeout > 0
  /\ Len(result.value.tool_calls) = 1
  /\ result.value.tool_calls[1].output = Some(tool_execs[1].returned.value.content)

\* ------------------------------------------------------------------ C37
\* C37: a run stopped for the iteration bound N has made N model calls,
\* each answered by a tool call whose tool returned an output; its result
\* has N thoughts and N tool-call records, the last message of the
\* transcript is the observation of the N-th tool, and every request sent
\* to the model is shorter than the transcript, so none holds that message.
C37_LastObservationUnseen ==
  (Finished /\ StrategyFailedWith("MaxIterationsReached")) =>
    LET N == context.max_iterations
    IN  /\ Len(llm_calls) = N
        /\ Len(tool_execs) = N
        /\ \A i \in 1..N : /\ tool_execs[i].returned.kind = "Some"
                           /\ tool_execs[i].returned.value.kind = "Ok"
        /\ Len(result.value.thoughts) = N
        /\ Len(result.value.tool_calls) = N
        /\ result.value.iterations = N
        /\ result.value.tool_calls[N].tool_name = tool_execs[N].tool_name
        /\ result.value.tool_calls[N].output = Some(tool_execs[N].returned.value.content)
        /\ context.messages[Len(context.messages)] =
             Message("user", <<"Tool Result from ">> \o tool_execs[N].tool_name
                             \o <<": ">> \o tool_execs[N].returned.value.content)
        /\ \A k \in 1..Len(llm_calls) :
             /\ Len(llm_calls[k].messages) <= Len(context.messages) - 2
             /\ llm_calls[k].messages =
                  SubSeq(context.messages, 1, Len(llm_calls[k].messages))

C37_Witness ==
  /\ Finished
  /\ StrategyFailedWith("MaxIterationsReached")
  /\ context.max_iterations = 2
  /\ Len(result.value.tool_calls) = 2
  /\ Len(result.value.thoughts) = 2
  /\ ~result.value.tool_calls[2].success
  /\ context.messages[Len(context.messages)].content =
       <<"Tool Result from ", "custom", ": ", "failed">>

====
